---------------------------- MODULE Spec2Model ----------------------------
(***************************************************************************)
(* FlashTools (ATSAM3X8E internal flash driver): the FlashTools object,    *)
(* the two embedded flash controllers (EFC0, EFC1) it drives, and the      *)
(* flash array behind them.                                                *)
(*                                                                         *)
(* 32-bit words are kept as integers in two's complement: a word whose     *)
(* bit 31 is set is the negative integer with the same bit pattern, so     *)
(* 0xFFFFFFFF is -1.  Addresses and sizes stay below 2^31.                 *)
(*                                                                         *)
(* The controllers are the environment of the driver.  Their registers     *)
(* follow the register contract: the status register holds the error       *)
(* flags of the last command until the next command is issued, the result  *)
(* register hands out the response of the last command one word per read.  *)
(***************************************************************************)
EXTENDS Integers, Sequences, FiniteSets, TLC

VARIABLES efc, fmr, fsr, frr, lockbits, gpnvm, flash, latch,
          FWS0, FWS1,
          uniqueID, flash_descriptor,
          hwid, hwcmd,
          pc, ubuff, uidfws, mpu, wr,
          call, ret, trace, pre, prev, nops

vars == <<efc, fmr, fsr, frr, lockbits, gpnvm, flash, latch,
          FWS0, FWS1, uniqueID, flash_descriptor, hwid, hwcmd,
          pc, ubuff, uidfws, mpu, wr, call, ret, trace, pre, prev,
          nops>>

----------------------------------------------------------------------------
(* Memory map and flash geometry (FlashTools.h)                            *)

\* 0x00080000
IFLASH0_ADDR == 524288
\* 0x000C0000
IFLASH1_ADDR == 786432
IFLASH0_SIZE == IFLASH1_ADDR - IFLASH0_ADDR
IFLASH1_SIZE == IFLASH0_SIZE
IFLASH_ADDR == IFLASH0_ADDR
IFLASH_PAGE_SIZE == 256
IFLASH_NB_OF_PAGES == 1024
IFLASH_LOCK_REGION_PAGES == 64
IFLASH_WORD_SIZE == 4
IFLASH_LOCK_REGION_SIZE == IFLASH_PAGE_SIZE * IFLASH_LOCK_REGION_PAGES
IFLASH_WORDS_PER_PAGE == IFLASH_PAGE_SIZE \div IFLASH_WORD_SIZE
IFLASH_LAST_PAGE_ADDRESS == IFLASH1_ADDR + IFLASH1_SIZE - IFLASH_PAGE_SIZE
CHIP_FLASH_WAIT_STATE == 6
UNIQUE_ID_SIZE == 4
FLASH_DESCRIPTOR_SIZE == 4

\* EEFC_FSR error flags
EEFC_FSR_FCMDE == 2
EEFC_FSR_FLOCKE == 4
EEFC_FSR_FRDY == 1
EEFC_ERROR_FLAGS == EEFC_FSR_FLOCKE + EEFC_FSR_FCMDE

\* EFC commands
EFC_FCMD_GETD == 0
EFC_FCMD_WP == 1
EFC_FCMD_WPL == 2
EFC_FCMD_EWP == 3
EFC_FCMD_EWPL == 4
EFC_FCMD_EA == 5
EFC_FCMD_SLB == 8
EFC_FCMD_CLB == 9
EFC_FCMD_GLB == 10
EFC_FCMD_SGPB == 11
EFC_FCMD_CGPB == 12
EFC_FCMD_GGPB == 13
EFC_FCMD_STUI == 14
EFC_FCMD_SPUI == 15

\* 0x5A
FWP_KEY == 90

\* Return codes (enum ReturnCodes); INVALID is 0xFFFFFFFF
SUCCESS == 0
ERROR == 16
INVALID == -1
BIT_IS_SET == 1
BIT_IS_CLEARED == 0

\* EFC0 / EFC1 as the index the IAP routine takes
EFC0 == 0
EFC1 == 1

----------------------------------------------------------------------------
(* Bounds of the model                                                     *)

\* write calls in one behaviour
MaxWrites == 1
\* lock, unlock and islocked calls in one behaviour
MaxLockOps == 2
\* GPNVM and setEFC calls in one behaviour
MaxGpnvmOps == 2
\* a controller may reject up to the MaxFault-th command of a call
MaxFault == 2
\* wait states the mode registers held before the first instance was built
BootFWS == 4

----------------------------------------------------------------------------
(* F applied to the value of e, with e evaluated once                      *)
Bind(e, F(_)) == CHOOSE y \in {F(x) : x \in {e}} : TRUE

----------------------------------------------------------------------------
(* Word arithmetic                                                         *)

Pow2(n) == 2 ^ n

\* bit k of a 32-bit word
Bit(w, k) == IF k = 31 THEN w < 0 ELSE (w \div Pow2(k)) % 2 = 1

\* the 32-bit word whose set bits are the members of S (S within 0..31)
RECURSIVE SumPow2(_)
SumPow2(S) ==
    IF S = {} THEN 0
    ELSE LET k == CHOOSE x \in S : TRUE IN Pow2(k) + SumPow2(S \ {k})

WordOfBits(S) ==
    SumPow2(S \ {31}) + (IF 31 \in S THEN (-2147483647) - 1 ELSE 0)

\* bitwise AND of two bytes
RECURSIVE ByteAnd(_, _, _)
ByteAnd(a, b, n) ==
    IF n = 0 THEN 0
    ELSE (IF a % 2 = 1 /\ b % 2 = 1 THEN 1 ELSE 0)
         + 2 * ByteAnd(a \div 2, b \div 2, n - 1)

\* uint16_t conversion
U16(x) == x % 65536


\* v & EEFC_ERROR_FLAGS, for a status register value v in 0..7
MaskErrorFlags(v) == ((v \div 2) % 4) * 2

\* comparisons and division of uint32_t values; a word with bit 31 set is a
\* negative number here
ULt(a, b) == IF (a < 0) = (b < 0) THEN a < b ELSE b < 0

UGt(a, b) == ULt(b, a)

UGe(a, b) == ~ULt(a, b)

UDiv(a, b) ==
    IF b < 0 THEN (IF UGe(a, b) THEN 1 ELSE 0)
    ELSE IF a >= 0 THEN a \div b
    ELSE LET r == (a + 1073741824) + 1073741824
         IN  2 * (1073741824 \div b) + (r \div b)
             + ((2 * (1073741824 % b) + (r % b)) \div b)

----------------------------------------------------------------------------
(* The flash array.  A page that was never programmed holds the content    *)
(* the part was delivered with, FlashInit; flash.pg maps the address of    *)
(* each programmed page to its 256 bytes, flash.ea is the set of banks on  *)
(* which an erase-all was executed.                                        *)

Pages == 0 .. (IFLASH_PAGE_SIZE - 1)

FlashInit(a) == a % 251

BankOf(a) == IF a >= IFLASH1_ADDR THEN 1 ELSE 0

BankBase(b) == IF b = 1 THEN IFLASH1_ADDR ELSE IFLASH0_ADDR

PageBase(a) == a - (a % IFLASH_PAGE_SIZE)

FlashByte(fl, a) ==
    IF PageBase(a) \in DOMAIN fl.pg THEN fl.pg[PageBase(a)][a % IFLASH_PAGE_SIZE]
    ELSE IF BankOf(a) \in fl.ea THEN 255
    ELSE FlashInit(a)

ErasedPage == [k \in Pages |-> 255]

\* byte i of the caller's data buffer
DataByte(i) == 10 + (i % 241)

----------------------------------------------------------------------------
(* The machine an operation runs on: the object's controller pointer, the  *)
(* registers and arrays of both controllers, the events of the call so     *)
(* far, which of the call's commands the controller will reject, and the   *)
(* number of words its get-descriptor response has before the zeros.       *)

Machine(fault) ==
    [efc |-> efc, fmr |-> fmr, fsr |-> fsr, frr |-> frr, lockbits |-> lockbits,
     gpnvm |-> gpnvm, flash |-> flash, latch |-> latch,
     uniqueID |-> uniqueID, flash_descriptor |-> flash_descriptor,
     trace |-> <<>>, fault |-> fault, dwords |-> FLASH_DESCRIPTOR_SIZE + 1]

\* st: the error flags the status register shows once the event is over
Event(kind, b, arg, st) == [ev |-> kind, efc |-> b, arg |-> arg, st |-> st]

\* fields of the command word (EEFC_FCR_Type)
FCMD(word) == word % 256
FARG(word) == (word \div 256) % 65536
FKEY(word) == (word \div 16777216) % 256

\* the lock bits of regions 32g .. 32g+31 as one result word
LockWord(L, g) == WordOfBits({k \in 0..31 : (32 * g + k) \in L})

\* the response to get-lock-bits: one word per 32 regions
LockStream(L) ==
    LET top == IF L = {} THEN 0 ELSE (CHOOSE r \in L : \A q \in L : q <= r) \div 32
    IN  [g \in 1..(top + 1) |-> LockWord(L, g - 1)]

\* program page p of bank b from the bank's latch buffer
HwProgram(m, b, p, eraseFirst, lockAfter) ==
    LET pa == BankBase(b) + p * IFLASH_PAGE_SIZE
        r == p \div IFLASH_LOCK_REGION_PAGES
        new == IF eraseFirst THEN m.latch[b]
               ELSE [k \in Pages |-> ByteAnd(FlashByte(m.flash, pa + k), m.latch[b][k], 8)]
        pg2 == [x \in (DOMAIN m.flash.pg) \cup {pa} |->
                   IF x = pa THEN new ELSE m.flash.pg[x]]
    IN  IF p >= IFLASH_NB_OF_PAGES
        THEN [m EXCEPT !.fsr[b] = EEFC_FSR_FRDY + EEFC_FSR_FCMDE]
        ELSE IF r \in m.lockbits[b]
        THEN [m EXCEPT !.fsr[b] = EEFC_FSR_FRDY + EEFC_FSR_FLOCKE]
        ELSE [m EXCEPT !.fsr[b] = EEFC_FSR_FRDY,
                       !.flash.pg = pg2,
                       !.lockbits[b] = IF lockAfter THEN @ \cup {r} ELSE @]

\* erase the whole bank b
HwEraseAll(m, b) ==
    IF m.lockbits[b] # {}
    THEN [m EXCEPT !.fsr[b] = EEFC_FSR_FRDY + EEFC_FSR_FLOCKE]
    ELSE [m EXCEPT !.fsr[b] = EEFC_FSR_FRDY,
                   !.flash.ea = @ \cup {b},
                   !.flash.pg = [x \in {y \in DOMAIN m.flash.pg : BankOf(y) # b}
                                    |-> m.flash.pg[x]]]

\* set or clear the lock bit of the region holding page p of bank b
HwLockBit(m, b, p, on) ==
    LET r == p \div IFLASH_LOCK_REGION_PAGES
    IN  IF p >= IFLASH_NB_OF_PAGES
        THEN [m EXCEPT !.fsr[b] = EEFC_FSR_FRDY + EEFC_FSR_FCMDE]
        ELSE [m EXCEPT !.fsr[b] = EEFC_FSR_FRDY,
                       !.lockbits[b] = IF on THEN @ \cup {r} ELSE @ \ {r}]

\* set or clear GPNVM bit i of controller b
HwGpnvmBit(m, b, i, on) ==
    IF i > 2
    THEN [m EXCEPT !.fsr[b] = EEFC_FSR_FRDY + EEFC_FSR_FCMDE]
    ELSE [m EXCEPT !.fsr[b] = EEFC_FSR_FRDY,
                   !.gpnvm[b] = IF on THEN @ \cup {i} ELSE @ \ {i}]

\* the response to the get-descriptor command: flash identifier, bank size,
\* page size, number of lock regions, lock region size
HwDescriptor(b) ==
    <<15 + b, IFLASH0_SIZE, IFLASH_PAGE_SIZE,
      IFLASH_NB_OF_PAGES \div IFLASH_LOCK_REGION_PAGES, IFLASH_LOCK_REGION_SIZE>>

\* controller b executes a command word written to its command register
HwExec(m, b, word) ==
    LET c == FCMD(word)
        a == FARG(word)
    IN  IF FKEY(word) # FWP_KEY
        THEN [m EXCEPT !.fsr[b] = EEFC_FSR_FRDY + EEFC_FSR_FCMDE]
        ELSE CASE c = EFC_FCMD_WP   -> HwProgram(m, b, a, FALSE, FALSE)
               [] c = EFC_FCMD_WPL  -> HwProgram(m, b, a, FALSE, TRUE)
               [] c = EFC_FCMD_EWP  -> HwProgram(m, b, a, TRUE, FALSE)
               [] c = EFC_FCMD_EWPL -> HwProgram(m, b, a, TRUE, TRUE)
               [] c = EFC_FCMD_GETD ->
                      [m EXCEPT !.fsr[b] = EEFC_FSR_FRDY,
                                !.frr[b] = SubSeq(HwDescriptor(b), 1, m.dwords)]
               [] c = EFC_FCMD_EA   -> HwEraseAll(m, b)
               [] c = EFC_FCMD_SLB  -> HwLockBit(m, b, a, TRUE)
               [] c = EFC_FCMD_CLB  -> HwLockBit(m, b, a, FALSE)
               [] c = EFC_FCMD_GLB  ->
                      [m EXCEPT !.fsr[b] = EEFC_FSR_FRDY,
                                !.frr[b] = LockStream(m.lockbits[b])]
               [] c = EFC_FCMD_SGPB -> HwGpnvmBit(m, b, a, TRUE)
               [] c = EFC_FCMD_CGPB -> HwGpnvmBit(m, b, a, FALSE)
               [] c = EFC_FCMD_GGPB ->
                      [m EXCEPT !.fsr[b] = EEFC_FSR_FRDY,
                                !.frr[b] = <<WordOfBits(m.gpnvm[b])>>]
               [] OTHER -> [m EXCEPT !.fsr[b] = EEFC_FSR_FRDY + EEFC_FSR_FCMDE]

\* the IAP routine in ROM: hands the word to controller idx and returns once
\* the controller is ready again.  The controller rejects the command the
\* call's fault plan names (a command illegal in the controller's state).
IAP(m, idx, word) ==
    LET m1 == [m EXCEPT !.fault = IF @ > 0 THEN @ - 1 ELSE 0]
    IN  Bind(IF m.fault = 1
             THEN [m1 EXCEPT !.fsr[idx] = EEFC_FSR_FRDY + EEFC_FSR_FCMDE]
             ELSE HwExec(m1, idx, word),
             LAMBDA m2 : [m2 EXCEPT !.trace =
                             Append(@, Event("cmd", idx, word, MaskErrorFlags(m2.fsr[idx])))])

\* one read of the result register of controller b
ReadFRR(m, b) ==
    IF m.frr[b] = <<>>
    THEN [m |-> m, val |-> 0]
    ELSE [m |-> [m EXCEPT !.frr[b] = Tail(@)], val |-> Head(m.frr[b])]

----------------------------------------------------------------------------
(* FlashTools private helpers                                              *)

getfws(m) == m.fmr[m.efc].FWS

setfws(m, fws) == [m EXCEPT !.fmr[m.efc].FWS = fws % 16]

\* a command word whose argument is not cut to its 16 bits
CmdWord_WideArgument(c, arg) == (c % 256) + arg * 256 + FWP_KEY * 16777216

\* the keyed command word cmd builds
CmdWord(c, arg) == (c % 256) + (arg % 65536) * 256 + FWP_KEY * 16777216

cmd(m, c, arg) ==
    Bind(IAP(m, (IF m.efc = EFC0 THEN 0 ELSE 1), CmdWord(c, arg)),
         LAMBDA m1 : [m |-> m1, ret |-> MaskErrorFlags(m1.fsr[m1.efc])])

----------------------------------------------------------------------------
(* Lock region manager                                                     *)

\* the first page (within its bank) of the lock region holding start_addr
LockStartPage(start_addr) ==
    LET actual_start_addr == start_addr - (start_addr % IFLASH_LOCK_REGION_SIZE)
    IN  IF actual_start_addr >= IFLASH1_ADDR
        THEN U16((actual_start_addr - IFLASH1_ADDR) \div IFLASH_PAGE_SIZE)
        ELSE U16((actual_start_addr - IFLASH0_ADDR) \div IFLASH_PAGE_SIZE)

\* an end page that is not moved to the end of its lock region
LockEndPage_NotRounded(start_addr, end_addr) ==
    LET actual_start_addr == start_addr - (start_addr % IFLASH_LOCK_REGION_SIZE)
    IN  IF actual_start_addr >= IFLASH1_ADDR
        THEN U16((end_addr - IFLASH1_ADDR) \div IFLASH_PAGE_SIZE)
        ELSE U16((end_addr - IFLASH0_ADDR) \div IFLASH_PAGE_SIZE)

\* the last page of the lock region holding end_addr, counted from the base
\* of the bank of start_addr
LockEndPage(start_addr, end_addr) ==
    LET actual_start_addr == start_addr - (start_addr % IFLASH_LOCK_REGION_SIZE)
        actual_end_addr == end_addr - (end_addr % IFLASH_LOCK_REGION_SIZE)
                             + IFLASH_LOCK_REGION_SIZE - 1
    IN  IF actual_start_addr >= IFLASH1_ADDR
        THEN U16((actual_end_addr - IFLASH1_ADDR) \div IFLASH_PAGE_SIZE)
        ELSE U16((actual_end_addr - IFLASH0_ADDR) \div IFLASH_PAGE_SIZE)

\* the controller lock and unlock select
LockEfc(start_addr) ==
    IF start_addr - (start_addr % IFLASH_LOCK_REGION_SIZE) >= IFLASH1_ADDR
    THEN EFC1 ELSE EFC0

\* a loop that goes on to the next region after a command has failed
RECURSIVE LockBitLoop_KeepsGoing(_, _, _, _)
LockBitLoop_KeepsGoing(m, c, start_page, end_page) ==
    IF start_page < end_page
    THEN Bind(cmd(m, c, start_page),
              LAMBDA r :
                 Bind(LockBitLoop_KeepsGoing(r.m, c,
                         U16(start_page + IFLASH_LOCK_REGION_SIZE \div IFLASH_PAGE_SIZE),
                         end_page),
                      LAMBDA rest :
                         IF r.ret # SUCCESS
                         THEN [m |-> rest.m, ret |-> r.ret]
                         ELSE rest))
    ELSE [m |-> m, ret |-> SUCCESS]

\* while (start_page < end_page): one set/clear-lock-bit command per region,
\* returning the status flags of the first command that fails
RECURSIVE LockBitLoop(_, _, _, _)
LockBitLoop(m, c, start_page, end_page) ==
    IF start_page < end_page
    THEN Bind(cmd(m, c, start_page),
              LAMBDA r :
                 IF r.ret # SUCCESS
                 THEN [m |-> r.m, ret |-> MaskErrorFlags(r.m.fsr[r.m.efc])]
                 ELSE LockBitLoop(r.m, c,
                         U16(start_page + IFLASH_LOCK_REGION_SIZE \div IFLASH_PAGE_SIZE),
                         end_page))
    ELSE [m |-> m, ret |-> SUCCESS]

lock(m, start_addr, end_addr) ==
    LockBitLoop([m EXCEPT !.efc = LockEfc(start_addr)], EFC_FCMD_SLB,
                LockStartPage(start_addr), LockEndPage(start_addr, end_addr))

unlock(m, start_addr, end_addr) ==
    LockBitLoop([m EXCEPT !.efc = LockEfc(start_addr)], EFC_FCMD_CLB,
                LockStartPage(start_addr), LockEndPage(start_addr, end_addr))

READ_SIZE == 32

\* islocked: the region index of an address, counted from the base of the
\* bank of start_addr
IsLockedRegion(start_addr, a) ==
    LET base == IF start_addr >= IFLASH1_ADDR THEN IFLASH1_ADDR ELSE IFLASH0_ADDR
        page == U16((a - base) \div IFLASH_PAGE_SIZE)
    IN  page \div (IFLASH_LOCK_REGION_SIZE \div IFLASH_PAGE_SIZE)

\* read result words until the 32-bit group holding start_region is reached
RECURSIVE SkipGroups(_, _, _, _)
SkipGroups(m, stat, involved, start_region) ==
    IF involved <= start_region /\ start_region < involved + READ_SIZE
    THEN [m |-> m, stat |-> stat, involved |-> involved]
    ELSE Bind(ReadFRR(m, m.efc),
              LAMBDA rd : SkipGroups(rd.m, rd.val, involved + READ_SIZE, start_region))

\* the rounds of the counting loop that test bits of one result word: from
\* position bit to position 31, or fewer when idx runs out first
RoundsInWord(bit, idx) == IF idx < READ_SIZE - bit THEN idx ELSE READ_SIZE - bit

\* how many of those rounds find their bit set
SetBitsInWord(stat, bit, idx) ==
    Cardinality({k \in bit .. (bit + RoundsInWord(bit, idx) - 1) : Bit(stat, k)})

\* a count that wraps the bit cursor without reading the next result word
RECURSIVE CountLocked_NoReload(_, _, _, _, _)
CountLocked_NoReload(m, stat, bit, idx, locked_regions) ==
    IF idx > 0
    THEN LET k == RoundsInWord(bit, idx)
             n == locked_regions + SetBitsInWord(stat, bit, idx)
         IN  IF bit + k = READ_SIZE
             THEN CountLocked_NoReload(m, stat, 0, idx - k, n)
             ELSE [m |-> m, ret |-> n]
    ELSE [m |-> m, ret |-> locked_regions]

\* the counting loop, one result word per step: count the set bits the
\* rounds of this word test; when the bit cursor has passed position 31 read
\* the next result word and go on at position 0
RECURSIVE CountLocked(_, _, _, _, _)
CountLocked(m, stat, bit, idx, locked_regions) ==
    IF idx > 0
    THEN LET k == RoundsInWord(bit, idx)
             n == locked_regions + SetBitsInWord(stat, bit, idx)
         IN  IF bit + k = READ_SIZE
             THEN LET rd == ReadFRR(m, m.efc)
                  IN  CountLocked(rd.m, rd.val, 0, idx - k, n)
             ELSE [m |-> m, ret |-> n]
    ELSE [m |-> m, ret |-> locked_regions]

\* the count of loop rounds, idx.  end_region - start_region + 1 is converted
\* to uint32_t: a negative difference is a count near 2^32.  A loop with more
\* rounds than the response has bits walks the whole response and goes on
\* reading zeros, which adds nothing, so the rounds past the end of the
\* response are left out.
IsLockedRounds(m, start_region, end_region) ==
    LET d == end_region - start_region + 1
        whole == READ_SIZE * (Len(m.frr[m.efc]) + 2)
    IN  IF d >= 0 /\ d <= whole THEN d ELSE whole

islocked(m, start_addr, end_addr) ==
    LET m0 == [m EXCEPT !.efc = IF start_addr >= IFLASH1_ADDR THEN EFC1 ELSE EFC0]
        start_region == IsLockedRegion(start_addr, start_addr)
        end_region == IsLockedRegion(start_addr, end_addr)
    IN  Bind(cmd(m0, EFC_FCMD_GLB, 0),
             LAMBDA r :
                IF r.ret # SUCCESS
                THEN [m |-> r.m, ret |-> MaskErrorFlags(r.m.fsr[r.m.efc])]
                ELSE Bind(ReadFRR(r.m, r.m.efc),
                          LAMBDA first :
                             Bind(SkipGroups(first.m, first.val, 0, start_region),
                                  LAMBDA sk :
                                     CountLocked(sk.m, sk.stat, start_region - sk.involved,
                                                 IsLockedRounds(sk.m, start_region,
                                                                end_region), 0))))

----------------------------------------------------------------------------
(* Page write engine                                                       *)

\* one memcpy of flashcpy: n bytes to dest, from the data buffer at data+dp
\* or from the flash at page_data
CopyPart(buf, fl, dest, fromData, dp, page_data, n) ==
    [k \in Pages |->
        IF dest <= k /\ k < dest + n
        THEN IF fromData THEN DataByte(dp + (k - dest))
             ELSE FlashByte(fl, page_data + (k - dest))
        ELSE buf[k]]

\* a flashcpy whose third copy forgets that page_data has advanced: the
\* padding is taken from the start of the page
PageBuffer_SuffixFromPageStart(fl, page_address, dp, offset, write_size, padding_size) ==
    LET b0 == [k \in Pages |-> 0]
        b1 == CopyPart(b0, fl, 0, FALSE, dp, page_address, offset)
        b2 == CopyPart(b1, fl, offset, TRUE, dp, page_address + offset, write_size)
        b3 == CopyPart(b2, fl, offset + write_size, FALSE, dp,
                       page_address, padding_size)
    IN  b3

\* the page buffer flashcpy builds in three copies (offset, data, padding);
\* dest and page_data advance by the size of each copy
PageBuffer(fl, page_address, dp, offset, write_size, padding_size) ==
    LET b0 == [k \in Pages |-> 0]
        b1 == CopyPart(b0, fl, 0, FALSE, dp, page_address, offset)
        b2 == CopyPart(b1, fl, offset, TRUE, dp, page_address + offset, write_size)
        b3 == CopyPart(b2, fl, offset + write_size, FALSE, dp,
                       page_address + offset + write_size, padding_size)
    IN  b3

\* the word-wise copy of the page buffer to the flash page: the stores land
\* in the latch buffer of the bank that decodes the address
StorePage(m, page_address, buf) ==
    LET m1 == [m EXCEPT !.trace = Append(@, Event("store", BankOf(page_address), page_address, 0))]
    IN  IF page_address >= IFLASH_ADDR
           /\ page_address < IFLASH_LAST_PAGE_ADDRESS + IFLASH_PAGE_SIZE
        THEN [m1 EXCEPT !.latch[BankOf(page_address)] = buf]
        ELSE m1

\* dataNull: write_data is the null pointer
flashcpy(m, page_address, dataNull, dp, offset, write_size, padding_size) ==
    IF page_address = 0 \/ dataNull
    THEN m
    ELSE StorePage(m, page_address,
                   PageBuffer(m.flash, page_address, dp, offset, write_size, padding_size))

\* the page-program command write picks
WriteCommand(erase, lck) ==
    IF erase /\ lck THEN EFC_FCMD_EWPL
    ELSE IF erase THEN EFC_FCMD_EWP
    ELSE EFC_FCMD_WP

\* a loop that goes on to the next page when a page command is rejected
RECURSIVE WriteLoop_KeepsGoing(_, _, _, _, _, _, _, _, _, _)
WriteLoop_KeepsGoing(m, FLASH_START_ADDR, page_num, offset, dataNull, dp, data_size, erase, lck, tsize) ==
    IF data_size > 0
    THEN LET write_size == IF IFLASH_PAGE_SIZE - offset < data_size
                           THEN IFLASH_PAGE_SIZE - offset ELSE data_size
             page_address == FLASH_START_ADDR + page_num * IFLASH_PAGE_SIZE
             padding_size == U16(IFLASH_PAGE_SIZE - offset - write_size)
             m1 == flashcpy(m, page_address, dataNull, dp, offset, write_size, padding_size)
         IN  Bind(cmd(m1, WriteCommand(erase, lck), page_num),
                  LAMBDA r :
                     WriteLoop_KeepsGoing(r.m, FLASH_START_ADDR, U16(page_num + 1), 0,
                                          dataNull, dp + (write_size \div tsize) * tsize,
                                          data_size - write_size, erase, lck, tsize))
    ELSE [m |-> m, ret |-> SUCCESS, done |-> TRUE]

\* the for loop of write; dp is the byte offset the data pointer has reached,
\* tsize is sizeof(Type)
RECURSIVE WriteLoop(_, _, _, _, _, _, _, _, _, _)
WriteLoop(m, FLASH_START_ADDR, page_num, offset, dataNull, dp, data_size, erase, lck, tsize) ==
    IF data_size > 0
    THEN LET write_size == IF IFLASH_PAGE_SIZE - offset < data_size
                           THEN IFLASH_PAGE_SIZE - offset ELSE data_size
             page_address == FLASH_START_ADDR + page_num * IFLASH_PAGE_SIZE
             padding_size == U16(IFLASH_PAGE_SIZE - offset - write_size)
             m1 == flashcpy(m, page_address, dataNull, dp, offset, write_size, padding_size)
         IN  Bind(cmd(m1, WriteCommand(erase, lck), page_num),
                  LAMBDA r :
                     IF r.ret # SUCCESS
                     THEN [m |-> r.m, ret |-> MaskErrorFlags(r.m.fsr[r.m.efc]),
                           done |-> FALSE]
                     ELSE WriteLoop(r.m, FLASH_START_ADDR, U16(page_num + 1), 0, dataNull,
                                    dp + (write_size \div tsize) * tsize,
                                    data_size - write_size, erase, lck, tsize))
    ELSE [m |-> m, ret |-> SUCCESS, done |-> TRUE]

\* write, from the line that selects the bank on
WriteBody(m, addr, dataNull, data_size, erase, lck, tsize) ==
    LET FLASH_START_ADDR == IF addr >= IFLASH1_ADDR THEN IFLASH1_ADDR ELSE IFLASH0_ADDR
        m1 == [m EXCEPT !.efc = IF addr >= IFLASH1_ADDR THEN EFC1 ELSE EFC0]
        page_num == U16((addr - FLASH_START_ADDR) \div IFLASH_PAGE_SIZE)
        offset == U16((addr - FLASH_START_ADDR) % IFLASH_PAGE_SIZE)
        fws == getfws(m1)
        m2 == setfws(m1, CHIP_FLASH_WAIT_STATE)
    IN  Bind(WriteLoop(m2, FLASH_START_ADDR, page_num, offset, dataNull, 0,
                       data_size, erase, lck, tsize),
             LAMBDA w :
                IF w.done
                THEN [m |-> setfws(w.m, fws), ret |-> SUCCESS]
                ELSE [m |-> w.m, ret |-> w.ret])

\* the address check of write
WriteAddrInvalid(addr) ==
    \/ addr >= IFLASH_LAST_PAGE_ADDRESS + IFLASH_PAGE_SIZE
    \/ addr < IFLASH_ADDR
    \/ addr % 4 # 0

\* a write that asks for the lock state but never unlocks
write_WithoutUnlock(m, addr, dataNull, data_size, erase, lck, tsize) ==
    IF WriteAddrInvalid(addr)
    THEN [m |-> m, ret |-> INVALID]
    ELSE Bind(islocked(m, addr, addr + data_size - 1),
              LAMBDA il :
                 WriteBody(il.m, addr, dataNull, data_size, erase, lck, tsize))

\* write<Type>(addr, data, data_size, erase, lock), tsize = sizeof(Type)
write(m, addr, dataNull, data_size, erase, lck, tsize) ==
    IF WriteAddrInvalid(addr)
    THEN [m |-> m, ret |-> INVALID]
    ELSE Bind(islocked(m, addr, addr + data_size - 1),
              LAMBDA il :
                 IF il.ret # 0
                 THEN Bind(unlock(il.m, addr, addr + data_size - 1),
                           LAMBDA ul :
                              IF ul.ret # SUCCESS
                              THEN [m |-> ul.m, ret |-> ERROR]
                              ELSE WriteBody(ul.m, addr, dataNull, data_size, erase, lck,
                                             tsize))
                 ELSE WriteBody(il.m, addr, dataNull, data_size, erase, lck, tsize))

\* the range test of read
ReadAddrInvalid(addr) ==
    UGt(addr, IFLASH_LAST_PAGE_ADDRESS + IFLASH_PAGE_SIZE) \/ ULt(addr, IFLASH0_ADDR)

\* read<Type>(addr), tsize = sizeof(Type): the bytes of the object at addr,
\* lowest address first, or INVALID
read(fl, addr, tsize) ==
    IF ReadAddrInvalid(addr)
    THEN INVALID
    ELSE [k \in 0 .. (tsize - 1) |-> FlashByte(fl, addr + k)]

\* FlashTools::erase: the bank of addr is targeted and erased
erase_bank(m, addr) ==
    cmd([m EXCEPT !.efc = IF UGe(addr, IFLASH1_ADDR) THEN EFC1 ELSE EFC0], EFC_FCMD_EA, 0)

----------------------------------------------------------------------------
(* Controller selection and GPNVM bits                                     *)

setEFC(m, efc_idx) ==
    IF efc_idx # 0 /\ efc_idx # 1
    THEN [m |-> m, ret |-> INVALID]
    ELSE [m |-> [m EXCEPT !.efc = IF efc_idx = 0 THEN EFC0 ELSE EFC1], ret |-> SUCCESS]

getEFC(m) == IF m.efc = EFC0 THEN 0 ELSE 1

\* a setter that programs the bit whatever the get-bits command answered
GpnvmProgram_AlwaysPrograms(m, i, wantSet, c, arg) ==
    Bind(cmd(m, EFC_FCMD_GGPB, 0),
         LAMBDA g :
            IF g.ret = SUCCESS
            THEN cmd(ReadFRR(g.m, g.m.efc).m, c, arg)
            ELSE cmd(g.m, c, arg))

\* the shape the five setters share: get the bits; when the command succeeded
\* and bit i already has the wanted value return SUCCESS, else issue command c
\* with argument arg
GpnvmProgram(m, i, wantSet, c, arg) ==
    Bind(cmd(m, EFC_FCMD_GGPB, 0),
         LAMBDA g :
            IF g.ret = SUCCESS
            THEN Bind(ReadFRR(g.m, g.m.efc),
                      LAMBDA rd :
                         IF Bit(rd.val, i) = wantSet
                         THEN [m |-> rd.m, ret |-> SUCCESS]
                         ELSE cmd(rd.m, c, arg))
            ELSE cmd(g.m, c, arg))

setSecurityBit(m) == GpnvmProgram(m, 0, TRUE, EFC_FCMD_SGPB, 0)

setBootModeSAMBA(m) == GpnvmProgram(m, 1, FALSE, EFC_FCMD_CGPB, 1)

setBootModeFlash(m) == GpnvmProgram(m, 1, TRUE, EFC_FCMD_SGPB, 1)

\* a setBootFlash0 that hands the clear-bit command the index of bit 1
setBootFlash0_WrongArgument(m) == GpnvmProgram(m, 2, FALSE, EFC_FCMD_CGPB, 1)

setBootFlash0(m) == GpnvmProgram(m, 2, FALSE, EFC_FCMD_CGPB, 2)

setBootFlash1(m) == GpnvmProgram(m, 2, TRUE, EFC_FCMD_SGPB, 2)

\* the shape the three getters share
GpnvmGet(m, i) ==
    Bind(cmd(m, EFC_FCMD_GGPB, 0),
         LAMBDA g :
            IF g.ret # SUCCESS
            THEN [m |-> g.m, ret |-> ERROR]
            ELSE Bind(ReadFRR(g.m, g.m.efc),
                      LAMBDA rd :
                         [m |-> rd.m,
                          ret |-> IF Bit(rd.val, i) THEN BIT_IS_SET ELSE BIT_IS_CLEARED]))

getSecurityBit(m) == GpnvmGet(m, 0)

getBootSelectBit(m) == GpnvmGet(m, 1)

getFlashSelectBit(m) == GpnvmGet(m, 2)

----------------------------------------------------------------------------
(* The flash descriptor and its getters                                    *)

\* a division of unsigned words as the build may carry it out: by zero it is
\* undefined, 0 and 0xFFFFFFFF stand for the words it may leave
Quotients(a, b) == IF b = 0 THEN {0, INVALID} ELSE {UDiv(a, b)}

\* the result-register reads of getFlashDescriptor, from word i on
RECURSIVE DescriptorLoop(_, _)
DescriptorLoop(m, i) ==
    IF i < FLASH_DESCRIPTOR_SIZE
    THEN Bind(ReadFRR(m, m.efc),
              LAMBDA x : IF x.val # 0
                         THEN DescriptorLoop([x.m EXCEPT !.flash_descriptor[i] = x.val], i + 1)
                         ELSE x.m)
    ELSE m

\* the range test of getFlashDescriptor
DescriptorAddrInvalid(addr) == UGt(addr, IFLASH_LAST_PAGE_ADDRESS)

\* a fetch that tags the cache before it knows the command's outcome
getFlashDescriptor_TagsFirst(m, addr) ==
    IF DescriptorAddrInvalid(addr)
    THEN [m |-> m, ok |-> FALSE]
    ELSE Bind(cmd([m EXCEPT !.efc = IF UGe(addr, IFLASH1_ADDR) THEN EFC1 ELSE EFC0,
                            !.flash_descriptor[FLASH_DESCRIPTOR_SIZE] = addr],
                  EFC_FCMD_GETD, 0),
              LAMBDA r : IF r.ret # SUCCESS
                         THEN [m |-> r.m, ok |-> FALSE]
                         ELSE [m |-> DescriptorLoop(r.m, 0), ok |-> TRUE])

\* ok: the pointer returned is not NULL
getFlashDescriptor(m, addr) ==
    IF DescriptorAddrInvalid(addr)
    THEN [m |-> m, ok |-> FALSE]
    ELSE Bind(cmd([m EXCEPT !.efc = IF UGe(addr, IFLASH1_ADDR) THEN EFC1 ELSE EFC0],
                  EFC_FCMD_GETD, 0),
              LAMBDA r : IF r.ret # SUCCESS
                         THEN [m |-> r.m, ok |-> FALSE]
                         ELSE [m |-> [DescriptorLoop(r.m, 0) EXCEPT
                                         !.flash_descriptor[FLASH_DESCRIPTOR_SIZE] = addr],
                               ok |-> TRUE])

\* the condition every getter starts with: the tag is addr, or the fetch for
\* addr returns the descriptor
DescriptorFor(m, addr) ==
    IF m.flash_descriptor[FLASH_DESCRIPTOR_SIZE] = addr
    THEN [m |-> m, ok |-> TRUE]
    ELSE getFlashDescriptor(m, addr)

\* the getters; each yields the set of results the call may return
getFlashId(m, addr) ==
    Bind(DescriptorFor(m, addr),
         LAMBDA r : {[m |-> r.m, ret |-> IF r.ok THEN r.m.flash_descriptor[0] ELSE INVALID]})

getFlashSize(m, addr) ==
    Bind(DescriptorFor(m, addr),
         LAMBDA r : {[m |-> r.m, ret |-> IF r.ok THEN r.m.flash_descriptor[1] ELSE INVALID]})

getPageSize(m, addr) ==
    Bind(DescriptorFor(m, addr),
         LAMBDA r : {[m |-> r.m, ret |-> IF r.ok THEN r.m.flash_descriptor[2] ELSE INVALID]})

getRegionCount(m, addr) ==
    Bind(DescriptorFor(m, addr),
         LAMBDA r : {[m |-> r.m, ret |-> IF r.ok THEN r.m.flash_descriptor[3] ELSE INVALID]})

getRegionSize(m, addr) ==
    Bind(DescriptorFor(m, addr),
         LAMBDA r : {[m |-> r.m, ret |-> IF r.ok THEN r.m.flash_descriptor[4] ELSE INVALID]})

getPageCount(m, addr) ==
    Bind(DescriptorFor(m, addr),
         LAMBDA r : {[m |-> r.m, ret |-> v] :
                        v \in IF r.ok
                              THEN Quotients(r.m.flash_descriptor[1], r.m.flash_descriptor[2])
                              ELSE {INVALID}})

getPageCountPerRegion(m, addr) ==
    Bind(DescriptorFor(m, addr),
         LAMBDA r : {[m |-> r.m, ret |-> v] :
                        v \in IF r.ok
                              THEN Quotients(r.m.flash_descriptor[4], r.m.flash_descriptor[2])
                              ELSE {INVALID}})

----------------------------------------------------------------------------
(* State after construction                                                *)

Banks == {0, 1}

\* what an operation found when it was called
Snapshot ==
    [efc |-> efc, fmr |-> fmr, lockbits |-> lockbits, gpnvm |-> gpnvm,
     flash |-> flash, uniqueID |-> uniqueID, flash_descriptor |-> flash_descriptor]

Call(op, addr, end, size, erase, lck, tsize, dataNull, fault) ==
    [op |-> op, addr |-> addr, end |-> end, size |-> size, erase |-> erase,
     lock |-> lck, tsize |-> tsize, null |-> dataNull, fault |-> fault]

NoCall == Call("none", 0, 0, 0, FALSE, FALSE, 1, FALSE, 0)

\* the unique-ID cache and the descriptor cache the constructor leaves: all
\* zero, the tag word of the descriptor 0xFFFFFFFF
NoUniqueID == [i \in 0 .. (UNIQUE_ID_SIZE - 1) |-> 0]

NoDescriptor ==
    [i \in 0 .. FLASH_DESCRIPTOR_SIZE |-> IF i = FLASH_DESCRIPTOR_SIZE THEN INVALID ELSE 0]

\* the locals of a write that is between two pages; none while no write runs
NoWrite ==
    [FLASH_START_ADDR |-> 0, page_num |-> 0, offset |-> 0, data_size |-> 0, dp |-> 0,
     fws |-> 0, irqs |-> 0]

\* the identifier of the parts all specifications but the unique-ID one run on
DefaultId == <<11, 12, 13, 14>>

\* The constructor: controller 0 targeted, both mode registers set to six
\* wait states, the caches empty.  FWS0 and FWS1 are the wait states saved
\* by the instance that was constructed first; the lock bits and the GPNVM
\* bits are non-volatile and are whatever L and G say; U is the unique
\* identifier of the part.
InitMachine(L, G, U) ==
    /\ efc = EFC0
    /\ fmr = [b \in Banks |-> [FWS |-> CHIP_FLASH_WAIT_STATE, SCOD |-> FALSE]]
    /\ FWS0 = BootFWS
    /\ FWS1 = BootFWS
    /\ fsr = [b \in Banks |-> EEFC_FSR_FRDY]
    /\ frr = [b \in Banks |-> <<>>]
    /\ lockbits = L
    /\ gpnvm = G
    /\ flash = [pg |-> [x \in {} |-> ErasedPage], ea |-> {}]
    /\ latch = [b \in Banks |-> ErasedPage]
    /\ uniqueID = NoUniqueID
    /\ flash_descriptor = NoDescriptor
    /\ hwid = U
    /\ hwcmd = [b \in Banks |-> "none"]
    /\ pc = "idle"
    /\ ubuff = NoUniqueID
    /\ uidfws = 0
    /\ mpu = [RBAR |-> 0, RASR |-> 0, CTRL |-> 0]
    /\ wr = NoWrite
    /\ call = NoCall
    /\ ret = SUCCESS
    /\ trace = <<>>
    /\ pre = [efc |-> EFC0,
              fmr |-> [b \in Banks |-> [FWS |-> CHIP_FLASH_WAIT_STATE, SCOD |-> FALSE]],
              lockbits |-> L, gpnvm |-> G,
              flash |-> [pg |-> [x \in {} |-> ErasedPage], ea |-> {}],
              uniqueID |-> NoUniqueID, flash_descriptor |-> NoDescriptor]
    /\ prev = [call |-> NoCall, ret |-> SUCCESS, trace |-> <<>>]
    /\ nops = 0

InitWith(L, G) == InitMachine(L, G, DefaultId)

\* the state an operation that returned r leaves, c being the call
Finish(r, c) ==
    /\ efc' = r.m.efc
    /\ fmr' = r.m.fmr
    /\ fsr' = r.m.fsr
    /\ frr' = r.m.frr
    /\ lockbits' = r.m.lockbits
    /\ gpnvm' = r.m.gpnvm
    /\ flash' = r.m.flash
    /\ latch' = r.m.latch
    /\ uniqueID' = r.m.uniqueID
    /\ flash_descriptor' = r.m.flash_descriptor
    /\ trace' = r.m.trace
    /\ ret' = r.ret
    /\ call' = c
    /\ pre' = Snapshot
    /\ prev' = [call |-> call, ret |-> ret, trace |-> trace]
    /\ pc = "idle"
    /\ UNCHANGED <<FWS0, FWS1, hwid, hwcmd, pc, ubuff, uidfws, mpu, wr>>

\* the fault plans of a call: 0 is a controller that accepts every command
Faults == 0 .. MaxFault

----------------------------------------------------------------------------
(* Operations                                                              *)

Write(addr, dataNull, size, erase, lck, tsize, fault) ==
    /\ nops < MaxWrites
    /\ nops' = nops + 1
    /\ \E r \in {write(Machine(fault), addr, dataNull, size, erase, lck, tsize)} :
          Finish(r, Call("write", addr, addr + size - 1, size, erase, lck, tsize, dataNull, fault))

Lock(start_addr, end_addr, fault) ==
    /\ nops < MaxLockOps
    /\ nops' = nops + 1
    /\ \E r \in {lock(Machine(fault), start_addr, end_addr)} :
          Finish(r, Call("lock", start_addr, end_addr, 0, FALSE, FALSE, 1, FALSE, fault))

Unlock(start_addr, end_addr, fault) ==
    /\ nops < MaxLockOps
    /\ nops' = nops + 1
    /\ \E r \in {unlock(Machine(fault), start_addr, end_addr)} :
          Finish(r, Call("unlock", start_addr, end_addr, 0, FALSE, FALSE, 1, FALSE, fault))

IsLocked(start_addr, end_addr, fault) ==
    /\ nops < MaxLockOps
    /\ nops' = nops + 1
    /\ \E r \in {islocked(Machine(fault), start_addr, end_addr)} :
          Finish(r, Call("islocked", start_addr, end_addr, 0, FALSE, FALSE, 1, FALSE, fault))

Erase(addr, fault) ==
    /\ nops < MaxLockOps
    /\ nops' = nops + 1
    /\ \E r \in {erase_bank(Machine(fault), addr)} :
          Finish(r, Call("erase", addr, addr, 0, FALSE, FALSE, 1, FALSE, fault))

\* the value of an object of tsize bytes as a word: its bytes in little-endian
\* order, bit 31 the sign
RECURSIVE WordOfBytes(_, _)
WordOfBytes(bytes, k) ==
    IF k = 3 THEN (IF bytes[3] >= 128 THEN bytes[3] - 256 ELSE bytes[3]) * 16777216
    ELSE IF k \notin DOMAIN bytes THEN 0
    ELSE bytes[k] * Pow2(8 * k) + WordOfBytes(bytes, k + 1)

\* INVALID converted to a Type of tsize bytes
InvalidAs(tsize) == IF tsize >= 4 THEN INVALID ELSE Pow2(8 * tsize) - 1

\* what a load from memory past the flash may return
Unmapped(tsize) == {0, InvalidAs(tsize)}

\* read<Type>(addr) for a Type of tsize bytes; every load from memory is
\* recorded
Read(addr, tsize) ==
    /\ nops < MaxLockOps
    /\ nops' = nops + 1
    /\ \E v \in (IF ReadAddrInvalid(addr) THEN {InvalidAs(tsize)}
                 ELSE IF UGe(addr, IFLASH_LAST_PAGE_ADDRESS + IFLASH_PAGE_SIZE)
                 THEN Unmapped(tsize)
                 ELSE {WordOfBytes(read(flash, addr, tsize), 0)}) :
          Finish([m |-> [Machine(0) EXCEPT !.trace =
                            IF ReadAddrInvalid(addr) THEN <<>>
                            ELSE <<Event("load", BankOf(addr), addr, 0)>>],
                  ret |-> v],
                 Call("read", addr, addr + tsize - 1, 0, FALSE, FALSE, tsize, FALSE, 0))

\* the five GPNVM setters and the three getters, by name
GpnvmResult(name, m) ==
    CASE name = "setSecurityBit" -> setSecurityBit(m)
      [] name = "setBootModeSAMBA" -> setBootModeSAMBA(m)
      [] name = "setBootModeFlash" -> setBootModeFlash(m)
      [] name = "setBootFlash0" -> setBootFlash0(m)
      [] name = "setBootFlash1" -> setBootFlash1(m)
      [] name = "getSecurityBit" -> getSecurityBit(m)
      [] name = "getBootSelectBit" -> getBootSelectBit(m)
      [] name = "getFlashSelectBit" -> getFlashSelectBit(m)

Gpnvm(name, fault) ==
    /\ nops < MaxGpnvmOps
    /\ nops' = nops + 1
    /\ \E r \in {GpnvmResult(name, Machine(fault))} :
          Finish(r, Call(name, 0, 0, 0, FALSE, FALSE, 1, FALSE, fault))

SetEFC(efc_idx) ==
    /\ nops < MaxGpnvmOps
    /\ nops' = nops + 1
    /\ \E r \in {setEFC(Machine(0), efc_idx)} :
          Finish(r, Call("setEFC", efc_idx, 0, 0, FALSE, FALSE, 1, FALSE, 0))

\* ~FlashTools of the instance constructed first, while this one stays in
\* use: both mode registers get the wait states that instance had saved
Destructor ==
    /\ nops = 0
    /\ \E b \in Banks : fmr[b].FWS # (IF b = 0 THEN FWS0 ELSE FWS1) % 16
    /\ fmr' = [b \in Banks |-> [FWS |-> (IF b = 0 THEN FWS0 ELSE FWS1) % 16,
                                SCOD |-> FALSE]]
    /\ call' = Call("destructor", 0, 0, 0, FALSE, FALSE, 1, FALSE, 0)
    /\ ret' = SUCCESS
    /\ trace' = <<>>
    /\ pre' = Snapshot
    /\ prev' = [call |-> call, ret |-> ret, trace |-> trace]
    /\ UNCHANGED <<efc, fsr, frr, lockbits, gpnvm, flash, latch, FWS0, FWS1, nops,
                   uniqueID, flash_descriptor, hwid, hwcmd, pc, ubuff, uidfws, mpu, wr>>

MaxDescOps == 3

DescriptorGetters ==
    {"getFlashId", "getFlashSize", "getPageSize", "getRegionCount", "getRegionSize",
     "getPageCount", "getPageCountPerRegion"}

DescriptorResults(name, m, addr) ==
    CASE name = "getFlashId" -> getFlashId(m, addr)
      [] name = "getFlashSize" -> getFlashSize(m, addr)
      [] name = "getPageSize" -> getPageSize(m, addr)
      [] name = "getRegionCount" -> getRegionCount(m, addr)
      [] name = "getRegionSize" -> getRegionSize(m, addr)
      [] name = "getPageCount" -> getPageCount(m, addr)
      [] name = "getPageCountPerRegion" -> getPageCountPerRegion(m, addr)

Descriptor(name, addr, fault) ==
    /\ nops < MaxDescOps
    /\ nops' = nops + 1
    /\ \E r \in DescriptorResults(name, Machine(fault), addr) :
          Finish(r, Call(name, addr, 0, 0, FALSE, FALSE, 1, FALSE, fault))

----------------------------------------------------------------------------
(* getUniqueID, one step per command-register write and per loop exit      *)

MaxUidOps == 3

\* the cache test of getUniqueID: a first word that is not zero
UidCached(id) == id[0] # 0

\* the exit tests of the two busy-wait loops, on the status word last read
FrdyFell_Ignored(stat) == TRUE

FrdyFell(stat) == stat % 2 # EEFC_FSR_FRDY

FrdyRose(stat) == stat % 2 = EEFC_FSR_FRDY

\* the 32-bit little-endian word the flash array holds at a; bit 31 is the sign
FlashWord(fl, a) ==
    LET b3 == FlashByte(fl, a + 3)
    IN  FlashByte(fl, a) + FlashByte(fl, a + 1) * 256 + FlashByte(fl, a + 2) * 65536
        + (IF b3 >= 128 THEN b3 - 256 ELSE b3) * 16777216

\* what a read of word i at the base of bank b returns: the identifier while
\* the controller is in its read-identifier mode, the array otherwise
UidWindow(b, i) ==
    IF hwcmd[b] = "uid" THEN hwid[i + 1]
    ELSE FlashWord(flash, BankBase(b) + 4 * i)

\* what getUniqueID does on a cache miss up to its start command, on
\* controller b with wait states fws: the start command written first
UidEntryEvents_CommandFirst(b, fws) ==
    <<Event("cmd", b, CmdWord(EFC_FCMD_STUI, 0), 0),
      Event("getfws", b, fws, 0),
      Event("setfws", b, CHIP_FLASH_WAIT_STATE % 16, 0),
      Event("scod", b, 1, 0)>>

\* what getUniqueID does on a cache miss up to its start command: the wait
\* states are read and set to 6, the SCOD flag is set, the command written
UidEntryEvents(b, fws) ==
    <<Event("getfws", b, fws, 0),
      Event("setfws", b, CHIP_FLASH_WAIT_STATE % 16, 0),
      Event("scod", b, 1, 0),
      Event("cmd", b, CmdWord(EFC_FCMD_STUI, 0), 0)>>

\* from the exit of the first loop, with status word stat, to the stop command
UidCopyEvents(b, stat) ==
    <<Event("ready", b, stat % 2, 0)>>
    \o [i \in 1 .. UNIQUE_ID_SIZE |-> Event("idword", b, BankBase(b) + 4 * (i - 1), 0)]
    \o <<Event("cmd", b, CmdWord(EFC_FCMD_SPUI, 0), 0)>>

\* from the exit of the second loop to the return
UidExitEvents(b, stat, fws) ==
    <<Event("ready", b, stat % 2, 0),
      Event("scod", b, 0, 0),
      Event("setfws", b, fws % 16, 0)>>

UidCall(buffNull) == Call("getUniqueID", 0, 0, 0, FALSE, FALSE, 1, buffNull, 0)

\* entry of getUniqueID up to the write of the start command
getUniqueID_Start(buffNull) ==
    /\ pc = "idle"
    /\ nops < MaxUidOps
    /\ nops' = nops + 1
    /\ call' = UidCall(buffNull)
    /\ pre' = Snapshot
    /\ prev' = [call |-> call, ret |-> ret, trace |-> trace]
    /\ IF buffNull
       THEN /\ ret' = INVALID
            /\ trace' = <<>>
            /\ UNCHANGED <<fmr, hwcmd, pc, ubuff, uidfws>>
       ELSE IF UidCached(uniqueID)
       THEN /\ ubuff' = uniqueID
            /\ ret' = SUCCESS
            /\ trace' = <<>>
            /\ UNCHANGED <<fmr, hwcmd, pc, uidfws>>
       ELSE /\ uidfws' = fmr[efc].FWS
            /\ fmr' = [fmr EXCEPT ![efc] = [FWS |-> CHIP_FLASH_WAIT_STATE % 16,
                                            SCOD |-> TRUE]]
            /\ hwcmd' = [hwcmd EXCEPT ![efc] = "stui"]
            /\ trace' = UidEntryEvents(efc, fmr[efc].FWS)
            /\ pc' = "fall"
            /\ UNCHANGED <<ret, ubuff>>
    /\ UNCHANGED <<efc, fsr, frr, lockbits, gpnvm, flash, latch, FWS0, FWS1,
                   uniqueID, flash_descriptor, hwid, mpu, wr>>

\* the first loop is left, the four words are copied, the stop command written
getUniqueID_Copy ==
    /\ pc = "fall"
    /\ FrdyFell(fsr[efc])
    /\ uniqueID' = [i \in 0 .. (UNIQUE_ID_SIZE - 1) |-> UidWindow(efc, i)]
    /\ ubuff' = uniqueID'
    /\ hwcmd' = [hwcmd EXCEPT ![efc] = "spui"]
    /\ trace' = trace \o UidCopyEvents(efc, fsr[efc])
    /\ pc' = "rise"
    /\ UNCHANGED <<efc, fmr, fsr, frr, lockbits, gpnvm, flash, latch, FWS0, FWS1,
                   flash_descriptor, hwid, uidfws, mpu, wr, call, ret, pre, prev, nops>>

\* the second loop is left, the mode register restored, SUCCESS returned
getUniqueID_Return ==
    /\ pc = "rise"
    /\ FrdyRose(fsr[efc])
    /\ fmr' = [fmr EXCEPT ![efc] = [FWS |-> uidfws % 16, SCOD |-> FALSE]]
    /\ trace' = trace \o UidExitEvents(efc, fsr[efc], uidfws)
    /\ ret' = SUCCESS
    /\ pc' = "idle"
    /\ UNCHANGED <<efc, fsr, frr, lockbits, gpnvm, flash, latch, FWS0, FWS1,
                   uniqueID, flash_descriptor, hwid, hwcmd, ubuff, uidfws, mpu, wr,
                   call, pre, prev, nops>>

\* the controller takes the start command: the ready flag falls and the base
\* of the bank shows the identifier
HwUidStart(b) ==
    /\ hwcmd[b] = "stui"
    /\ hwcmd' = [hwcmd EXCEPT ![b] = "uid"]
    /\ fsr' = [fsr EXCEPT ![b] = 0]
    /\ trace' = Append(trace, Event("fall", b, 0, 0))
    /\ UNCHANGED <<efc, fmr, frr, lockbits, gpnvm, flash, latch, FWS0, FWS1,
                   uniqueID, flash_descriptor, hwid, pc, ubuff, uidfws, mpu, wr,
                   call, ret, pre, prev, nops>>

\* the controller takes the stop command: the array is back, the flag rises
HwUidStop(b) ==
    /\ hwcmd[b] = "spui"
    /\ hwcmd' = [hwcmd EXCEPT ![b] = "none"]
    /\ fsr' = [fsr EXCEPT ![b] = EEFC_FSR_FRDY]
    /\ trace' = Append(trace, Event("rise", b, 0, 0))
    /\ UNCHANGED <<efc, fmr, frr, lockbits, gpnvm, flash, latch, FWS0, FWS1,
                   uniqueID, flash_descriptor, hwid, pc, ubuff, uidfws, mpu, wr,
                   call, ret, pre, prev, nops>>

----------------------------------------------------------------------------
(* Writes: the calls made, and the lock bits they may find                 *)

\* bank 0 base; 16 bytes into its first page; the last page of bank 0; the
\* last page of the first lock region of bank 1
WAddrs ==
    {IFLASH0_ADDR, IFLASH0_ADDR + 16, IFLASH1_ADDR - IFLASH_PAGE_SIZE,
     IFLASH1_ADDR + IFLASH_LOCK_REGION_SIZE - IFLASH_PAGE_SIZE}

\* misaligned, below the flash, the first address past the flash
WBadAddrs == {IFLASH0_ADDR + 2, IFLASH0_ADDR - IFLASH_PAGE_SIZE,
              IFLASH1_ADDR + IFLASH1_SIZE}

\* <<addr, dataNull, size, erase, lock, sizeof(Type), fault>>; the last two
\* sets are a write that runs past the end of bank 1 and writes of no bytes,
\* at the base of a bank, inside a page and at the base of a lock region
WriteCalls ==
    {<<a, FALSE, st[1], TRUE, FALSE, st[2], 0>> :
        a \in WAddrs, st \in {<<16, 1>>, <<256, 4>>, <<300, 1>>, <<300, 4>>, <<300, 12>>}}
    \cup {<<IFLASH0_ADDR, FALSE, sz, el[1], el[2], 1, 0>> :
        sz \in {16, 300}, el \in {<<TRUE, TRUE>>, <<FALSE, FALSE>>, <<FALSE, TRUE>>}}
    \cup {<<a, FALSE, 300, TRUE, FALSE, 1, f>> :
        a \in {IFLASH0_ADDR, IFLASH0_ADDR + 16}, f \in 1 .. MaxFault}
    \cup {<<a, FALSE, 16, TRUE, FALSE, 1, 0>> : a \in WBadAddrs}
    \cup {<<IFLASH0_ADDR + 16, TRUE, 16, TRUE, FALSE, 1, 0>>}
    \cup {<<IFLASH_LAST_PAGE_ADDRESS, FALSE, 300, TRUE, FALSE, 1, 0>>}
    \cup {<<a, FALSE, 0, TRUE, lck, 1, 0>> :
            a \in {IFLASH0_ADDR, IFLASH0_ADDR + 16, IFLASH0_ADDR + IFLASH_LOCK_REGION_SIZE,
                   IFLASH1_ADDR},
            lck \in BOOLEAN}

\* the regions locked when the object is constructed
WLockBits ==
    {[b \in Banks |-> {}],
     [b \in Banks |-> IF b = 0 THEN {0} ELSE {}],
     [b \in Banks |-> IF b = 0 THEN {0, 1, 15} ELSE {0, 1}],
     [b \in Banks |-> IF b = 0 THEN {} ELSE {0}]}

InitWrite == \E L \in WLockBits : InitWith(L, [b \in Banks |-> {}])

WriteOp == \E c \in WriteCalls : Write(c[1], c[2], c[3], c[4], c[5], c[6], c[7])

\* before the writes, the user unlocks the first lock region of bank 0
UserUnlock ==
    /\ nops = 0
    /\ 0 \in lockbits[0]
    /\ UNCHANGED nops
    /\ \E r \in {unlock(Machine(0), IFLASH0_ADDR, IFLASH0_ADDR + IFLASH_LOCK_REGION_SIZE - 1)} :
          Finish(r, Call("unlock", IFLASH0_ADDR, IFLASH0_ADDR + IFLASH_LOCK_REGION_SIZE - 1,
                 0, FALSE, FALSE, 1, FALSE, 0))

NextWrite == WriteOp \/ UserUnlock \/ Destructor

SpecWrite == InitWrite /\ [][NextWrite]_vars

----------------------------------------------------------------------------
(* Vocabulary of the properties                                            *)

FlashEnd == IFLASH1_ADDR + IFLASH1_SIZE

InFlash(a) == a >= IFLASH0_ADDR /\ a < FlashEnd

\* the lock region (within its bank) of a flash address
RegionOf(a) == (a - BankBase(BankOf(a))) \div IFLASH_LOCK_REGION_SIZE

\* the lock regions that overlap [s, e], both in the same bank
RegionsOf(s, e) == RegionOf(s) .. RegionOf(e)

\* the command words the last call issued, in order
RECURSIVE CmdWords(_)
CmdWords(tr) ==
    IF tr = <<>> THEN <<>>
    ELSE IF Head(tr).ev = "cmd" THEN <<Head(tr).arg>> \o CmdWords(Tail(tr))
    ELSE CmdWords(Tail(tr))

\* how many commands with code c the events tr hold
CountCmd(tr, c) == Cardinality({i \in 1..Len(tr) : tr[i].ev = "cmd" /\ FCMD(tr[i].arg) = c})

\* a write call that handed over a data buffer and met a controller that
\* accepts every command
GoodWrite ==
    /\ call.op = "write"
    /\ ~call.null
    /\ call.fault = 0

----------------------------------------------------------------------------
(* C1: round trip.  After write(addr, data, size, erase=true, lock=false)  *)
(* with addr page-aligned in flash, 0 < size <= one bank and addr+size     *)
(* inside the flash, write has returned SUCCESS and                        *)
(* read<T>(addr + i*sizeof(T)) is data[i] for every element i of the       *)
(* buffer, for every element type T and also when the range runs from      *)
(* bank 0 into bank 1.                                                     *)
C1_RoundTrip ==
    (/\ GoodWrite
     /\ call.erase /\ ~call.lock
     /\ InFlash(call.addr)
     /\ call.addr % IFLASH_PAGE_SIZE = 0
     /\ call.size > 0 /\ call.size <= IFLASH0_SIZE
     /\ call.addr + call.size <= FlashEnd)
    => /\ ret = SUCCESS
       /\ \A i \in 0 .. ((call.size \div call.tsize) - 1) :
             read(flash, call.addr + i * call.tsize, call.tsize)
                = [k \in 0 .. (call.tsize - 1) |-> DataByte(i * call.tsize + k)]

----------------------------------------------------------------------------
(* C2: partial-page preservation.  After a successful                      *)
(* write(addr, data, size, erase=true, lock=false) the bytes of the first  *)
(* page before addr and the bytes of the last page after addr+size-1 have  *)
(* the value they had before the write; when the whole range lies in one   *)
(* page, that page is the old prefix, then the size new bytes, then the    *)
(* old suffix.                                                             *)
C2_PartialPagePreserved ==
    (/\ GoodWrite
     /\ call.erase /\ ~call.lock
     /\ InFlash(call.addr) /\ call.addr % 4 = 0
     /\ call.size > 0
     /\ ret = SUCCESS)
    => LET first == PageBase(call.addr)
           last == PageBase(call.end)
       IN  /\ \A a \in first .. (call.addr - 1) :
                 FlashByte(flash, a) = FlashByte(pre.flash, a)
           /\ \A a \in (call.end + 1) .. (last + IFLASH_PAGE_SIZE - 1) :
                 FlashByte(flash, a) = FlashByte(pre.flash, a)
           /\ (first = last) =>
                 \A i \in 0 .. (call.size - 1) :
                    FlashByte(flash, call.addr + i) = DataByte(i)

\* a write of 16 bytes, 16 bytes into a page, has succeeded
C2_Witness ==
    /\ GoodWrite
    /\ call.erase /\ ~call.lock
    /\ call.addr = IFLASH0_ADDR + 16
    /\ call.size = 16
    /\ ret = SUCCESS
    /\ PageBase(call.addr) \in DOMAIN flash.pg

----------------------------------------------------------------------------
(* C3: write rejects a misaligned address, an address outside the flash    *)
(* and a null data pointer with INVALID, without a command to either       *)
(* controller, without a store to the flash, and without a change of the   *)
(* mode registers or of the targeted controller.                           *)
C3_RejectsBadArguments ==
    (/\ call.op = "write"
     /\ \/ call.addr % 4 # 0
        \/ ~InFlash(call.addr)
        \/ call.null)
    => /\ ret = INVALID
       /\ trace = <<>>
       /\ fmr = pre.fmr
       /\ efc = pre.efc

----------------------------------------------------------------------------
(* C4: wait-state restore.  Whenever write returns after it has forced the *)
(* wait state to 6, the wait-state field of the targeted controller's      *)
(* mode register is what it was when write was entered.                    *)
C4_WaitStateRestored ==
    (/\ call.op = "write"
     /\ InFlash(call.addr) /\ call.addr % 4 = 0
     /\ ret # ERROR)
    => fmr[efc].FWS = pre.fmr[efc].FWS

----------------------------------------------------------------------------
(* C5 as stated: a write whose range lies in a locked region, without an   *)
(* unlock by the user before it, returns a lock-error status and leaves    *)
(* the flash content of the range unchanged.                               *)
RangeLockedBefore ==
    /\ InFlash(call.addr) /\ call.addr % 4 = 0
    /\ call.size > 0
    /\ InFlash(call.end)
    /\ BankOf(call.addr) = BankOf(call.end)
    /\ \A r \in RegionsOf(call.addr, call.end) : r \in pre.lockbits[BankOf(call.addr)]

C5_LockedWriteIsRefused ==
    (/\ GoodWrite
     /\ RangeLockedBefore
     /\ prev.call.op # "unlock")
    => /\ ret \in {EEFC_FSR_FLOCKE, EEFC_FSR_FLOCKE + EEFC_FSR_FCMDE}
       /\ \A i \in 0 .. (call.size - 1) :
             FlashByte(flash, call.addr + i) = FlashByte(pre.flash, call.addr + i)

(* C5 as amended: a write(addr, data, size, erase=true, lock=false) whose  *)
(* range lies in one bank, in locked regions, is not refused: write clears *)
(* the lock bit of every region of the range itself, before the first      *)
(* store, returns SUCCESS, and the first page of the range holds the new   *)
(* data; after the user has unlocked the range the same write returns      *)
(* SUCCESS as well, without a clear-lock-bit command of its own.           *)
UserUnlockedBefore ==
    /\ prev.call.op = "unlock"
    /\ prev.ret = SUCCESS
    /\ InFlash(call.addr) /\ call.addr % 4 = 0
    /\ call.size > 0
    /\ BankOf(prev.call.addr) = BankOf(call.addr)
    /\ BankOf(call.addr) = BankOf(call.end)
    /\ RegionsOf(call.addr, call.end) \subseteq RegionsOf(prev.call.addr, prev.call.end)

FirstPageBytes == 
    IF call.size < IFLASH_PAGE_SIZE - (call.addr % IFLASH_PAGE_SIZE)
    THEN call.size
    ELSE IFLASH_PAGE_SIZE - (call.addr % IFLASH_PAGE_SIZE)

C5_LockedWriteUnlocksItself ==
    (/\ GoodWrite
     /\ call.erase /\ ~call.lock
     /\ RangeLockedBefore \/ UserUnlockedBefore)
    => /\ ret = SUCCESS
       /\ \A r \in RegionsOf(call.addr, call.end) : r \notin lockbits[BankOf(call.addr)]
       /\ \A i \in 0 .. (FirstPageBytes - 1) :
             FlashByte(flash, call.addr + i) = DataByte(i)
       /\ RangeLockedBefore =>
             /\ CountCmd(trace, EFC_FCMD_CLB) = Cardinality(RegionsOf(call.addr, call.end))
             /\ \A i, j \in 1 .. Len(trace) :
                   (trace[i].ev = "store" /\ trace[j].ev = "cmd"
                    /\ FCMD(trace[j].arg) = EFC_FCMD_CLB) => j < i
       /\ (UserUnlockedBefore /\ ~RangeLockedBefore) =>
             CountCmd(trace, EFC_FCMD_CLB) = 0

\* a write into a region that was locked when it was called has succeeded
C5_Witness ==
    /\ GoodWrite
    /\ call.erase /\ ~call.lock
    /\ RangeLockedBefore
    /\ prev.call.op # "unlock"
    /\ ret = SUCCESS
    /\ CountCmd(trace, EFC_FCMD_CLB) > 0

----------------------------------------------------------------------------
(* Lock queries.  islocked takes any address pair; to see what it does     *)
(* with response streams longer than one result word, the controllers of   *)
(* this specification answer get-lock-bits with up to three words.         *)

\* lock bits of the wide controllers
QLockBits ==
    {[b \in Banks |-> IF b = 0 THEN {0, 31, 32} ELSE {30, 32, 34, 63, 64, 70}],
     [b \in Banks |-> IF b = 0 THEN {1, 15, 33, 65} ELSE {31, 33}],
     [b \in Banks |-> IF b = 0 THEN {} ELSE 30..34]}

\* region pairs <<start_region, end_region>> the queries span
QRegions ==
    {<<0, 0>>, <<0, 31>>, <<0, 32>>, <<30, 34>>, <<31, 32>>, <<32, 32>>,
     <<33, 63>>, <<63, 64>>, <<0, 70>>}

\* byte offsets of the start and end address within their regions
QOffsets == {<<0, 0>>, <<256, IFLASH_LOCK_REGION_SIZE - 1>>}

\* <<bank base, region pair, offsets, fault>>; the get-lock-bits command is
\* rejected in one call per bank
QueryCalls ==
    {<<IF b = 0 THEN IFLASH0_ADDR ELSE IFLASH1_ADDR, q, o, 0>> :
        b \in Banks, q \in QRegions, o \in QOffsets}
    \cup {<<IF b = 0 THEN IFLASH0_ADDR ELSE IFLASH1_ADDR, <<30, 34>>, <<0, 0>>, 1>> :
             b \in Banks}

InitIsLocked == \E L \in QLockBits : InitWith(L, [b \in Banks |-> {}])

IsLockedOp ==
    \E c \in QueryCalls :
        IsLocked(c[1] + c[2][1] * IFLASH_LOCK_REGION_SIZE + c[3][1],
                 c[1] + c[2][2] * IFLASH_LOCK_REGION_SIZE + c[3][2], c[4])

NextIsLocked == IsLockedOp \/ Destructor

SpecIsLocked == InitIsLocked /\ [][NextIsLocked]_vars

----------------------------------------------------------------------------
(* C6: islocked returns the exact number of set lock bits among the        *)
(* regions start_region .. end_region (region = page number / 64, counted  *)
(* from the base of the bank of the start address), for every              *)
(* start_region <= end_region, also when the range begins at region 32 or  *)
(* later and when it straddles a group of 32 such as regions 30..34; and   *)
(* it issues the get-lock-bits command exactly once and no other command.  *)
QueryBase == IF call.addr >= IFLASH1_ADDR THEN IFLASH1_ADDR ELSE IFLASH0_ADDR

QueryBank == IF call.addr >= IFLASH1_ADDR THEN 1 ELSE 0

QueryRegion(a) == ((a - QueryBase) \div IFLASH_PAGE_SIZE) \div IFLASH_LOCK_REGION_PAGES

C6_IsLockedCountsExactly ==
    (/\ call.op = "islocked"
     /\ QueryRegion(call.addr) <= QueryRegion(call.end))
    => /\ Len(trace) = 1
       /\ trace[1].ev = "cmd"
       /\ trace[1].efc = QueryBank
       /\ FCMD(trace[1].arg) = EFC_FCMD_GLB
       /\ (trace[1].st = 0) =>
             ret = Cardinality({r \in QueryRegion(call.addr) .. QueryRegion(call.end) :
                                   r \in pre.lockbits[QueryBank]})

\* a query of regions 30..34 of bank 1, of which 30, 32 and 34 are locked,
\* has returned 3
C6_Witness ==
    /\ call.op = "islocked"
    /\ QueryBank = 1
    /\ QueryRegion(call.addr) = 30
    /\ QueryRegion(call.end) = 34
    /\ pre.lockbits[1] \cap (30..34) = {30, 32, 34}
    /\ trace[1].st = 0
    /\ ret = 3

----------------------------------------------------------------------------
(* Locking and unlocking                                                   *)

\* lock bits of the two controllers when the first call is made
LLockBits ==
    {[b \in Banks |-> {}],
     [b \in Banks |-> IF b = 0 THEN {0, 2, 15} ELSE {1}],
     [b \in Banks |-> 0..15]}

\* address ranges <<start_addr, end_addr>> inside one bank
LRanges ==
    {<<IFLASH0_ADDR, IFLASH0_ADDR + IFLASH_LOCK_REGION_SIZE>>,
     <<IFLASH0_ADDR + 256, IFLASH0_ADDR + 512>>,
     <<IFLASH0_ADDR + IFLASH_LOCK_REGION_SIZE, IFLASH0_ADDR + 4 * IFLASH_LOCK_REGION_SIZE - 1>>,
     <<IFLASH1_ADDR - 4, IFLASH1_ADDR - 1>>,
     <<IFLASH1_ADDR, IFLASH1_ADDR + IFLASH_LOCK_REGION_SIZE>>,
     <<IFLASH1_ADDR + 14 * IFLASH_LOCK_REGION_SIZE + 256, FlashEnd - 1>>}

\* ranges that leave the bank they start in
LCrossRanges ==
    {<<IFLASH1_ADDR - IFLASH_LOCK_REGION_SIZE, IFLASH1_ADDR + IFLASH_LOCK_REGION_SIZE>>,
     <<FlashEnd - 2 * IFLASH_LOCK_REGION_SIZE, FlashEnd + IFLASH_LOCK_REGION_SIZE>>}

InitLock == \E L \in LLockBits : InitWith(L, [b \in Banks |-> {}])

LockOp == \E r \in LRanges \cup LCrossRanges, f \in Faults : Lock(r[1], r[2], f)

UnlockOp == \E r \in LRanges \cup LCrossRanges, f \in Faults : Unlock(r[1], r[2], f)

LockQuery == \E r \in LRanges : IsLocked(r[1], r[2], 0)

NextLock == LockOp \/ UnlockOp \/ LockQuery

SpecLock == InitLock /\ [][NextLock]_vars

\* the last call was lock or unlock on start_addr <= end_addr in one bank
SameBankRange ==
    /\ call.addr <= call.end
    /\ InFlash(call.addr) /\ InFlash(call.end)
    /\ BankOf(call.addr) = BankOf(call.end)

\* islocked, called now on the range of the last call
QueryNow == islocked(Machine(0), call.addr, call.end)

\* every lock bit outside the span of the last call is what it was before
OutsideSpanUnchanged ==
    /\ \A r \in 0..15 :
          r \notin RegionsOf(call.addr, call.end)
          => (r \in lockbits[BankOf(call.addr)] <=> r \in pre.lockbits[BankOf(call.addr)])
    /\ lockbits[1 - BankOf(call.addr)] = pre.lockbits[1 - BankOf(call.addr)]

----------------------------------------------------------------------------
(* C7: lock, unlock and islocked agree.  For start_addr <= end_addr in one *)
(* bank: after lock has returned SUCCESS every region from the one of      *)
(* start_addr to the one of end_addr is locked and islocked on the same    *)
(* range returns the number of those regions (2 for 0x80000..0x84000);     *)
(* after unlock has returned SUCCESS islocked returns 0; the regions       *)
(* outside the span keep their lock state.                                 *)
C7_LockUnlockIsLockedAgree ==
    (/\ call.op \in {"lock", "unlock"}
     /\ SameBankRange
     /\ ret = SUCCESS)
    => /\ OutsideSpanUnchanged
       /\ QueryNow.m.trace[1].st = 0
       /\ (call.op = "lock") =>
             /\ RegionsOf(call.addr, call.end) \subseteq lockbits[BankOf(call.addr)]
             /\ QueryNow.ret = Cardinality(RegionsOf(call.addr, call.end))
             /\ (call.addr = IFLASH0_ADDR /\ call.end = IFLASH0_ADDR + 16384)
                   => QueryNow.ret = 2
       /\ (call.op = "unlock") =>
             /\ RegionsOf(call.addr, call.end) \cap lockbits[BankOf(call.addr)] = {}
             /\ QueryNow.ret = 0

\* lock(0x80000, 0x84000) on two unlocked regions has returned SUCCESS
C7_Witness ==
    /\ call.op = "lock"
    /\ call.addr = IFLASH0_ADDR
    /\ call.end = IFLASH0_ADDR + 16384
    /\ ret = SUCCESS
    /\ pre.lockbits[0] \cap {0, 1} = {}
    /\ {0, 1} \subseteq lockbits[0]

----------------------------------------------------------------------------
(* C8: lock and unlock abort on the first failing command.  No command     *)
(* follows a failed one; the call returns the error flags of the failed    *)
(* command, which are not SUCCESS; and the lock bits are those the         *)
(* commands before the failed one have produced: nothing is rolled back.   *)

\* the lock regions the successful commands of the last call named
RegionsDone(b) ==
    {FARG(trace[i].arg) \div IFLASH_LOCK_REGION_PAGES :
        i \in {j \in 1..Len(trace) : trace[j].st = 0 /\ trace[j].efc = b}}

C8_LockAbortsOnFirstFailure ==
    (call.op \in {"lock", "unlock"}) =>
       /\ \A i \in 1..Len(trace) :
             /\ trace[i].ev = "cmd"
             /\ FCMD(trace[i].arg) = (IF call.op = "lock" THEN EFC_FCMD_SLB ELSE EFC_FCMD_CLB)
             /\ i < Len(trace) => trace[i].st = 0
       /\ (trace # <<>> /\ trace[Len(trace)].st # 0) =>
             /\ ret = trace[Len(trace)].st
             /\ ret # SUCCESS
       /\ (trace = <<>> \/ trace[Len(trace)].st = 0) => ret = SUCCESS
       /\ \A b \in Banks :
             lockbits[b] = IF call.op = "lock"
                           THEN pre.lockbits[b] \cup RegionsDone(b)
                           ELSE pre.lockbits[b] \ RegionsDone(b)

\* a lock whose second command failed has left the first region locked
C8_Witness ==
    /\ call.op = "lock"
    /\ Len(trace) = 2
    /\ trace[1].st = 0
    /\ trace[2].st # 0
    /\ ret # SUCCESS
    /\ lockbits # pre.lockbits

----------------------------------------------------------------------------
(* GPNVM bits                                                              *)

Setters ==
    {"setSecurityBit", "setBootModeSAMBA", "setBootModeFlash", "setBootFlash0",
     "setBootFlash1"}

Getters == {"getSecurityBit", "getBootSelectBit", "getFlashSelectBit"}

\* GPNVM bits of the two controllers when the first call is made
GBits ==
    {[b \in Banks |-> {}],
     [b \in Banks |-> IF b = 0 THEN {1} ELSE {0, 2}],
     [b \in Banks |-> IF b = 0 THEN {0, 1, 2} ELSE {}]}

InitGpnvm == \E G \in GBits : InitWith([b \in Banks |-> {}], G)

SetterOp == \E n \in Setters, f \in Faults : Gpnvm(n, f)

GetterOp == \E n \in Getters, f \in Faults : Gpnvm(n, f)

SetEFCOp == \E i \in 0..2 : SetEFC(i)

NextGpnvm == SetterOp \/ GetterOp \/ SetEFCOp

SpecGpnvm == InitGpnvm /\ [][NextGpnvm]_vars

\* the bit a setter or getter is about, and the value a setter wants
BitOf(name) ==
    CASE name \in {"setSecurityBit", "getSecurityBit"} -> 0
      [] name \in {"setBootModeSAMBA", "setBootModeFlash", "getBootSelectBit"} -> 1
      [] OTHER -> 2

WantsSet(name) == name \in {"setSecurityBit", "setBootModeFlash", "setBootFlash1"}

\* the set-bit and clear-bit commands among the events tr
ProgramCmds(tr) ==
    {i \in 1..Len(tr) : tr[i].ev = "cmd"
                        /\ FCMD(tr[i].arg) \in {EFC_FCMD_SGPB, EFC_FCMD_CGPB}}

AllAccepted(tr) == \A i \in 1..Len(tr) : tr[i].st = 0

\* a setter was called while its bit already had the value it wants, and
\* its get-bits command succeeded
AlreadyThere ==
    /\ call.op \in Setters
    /\ trace[1].st = 0
    /\ (BitOf(call.op) \in pre.gpnvm[pre.efc]) = WantsSet(call.op)

----------------------------------------------------------------------------
----------------------------------------------------------------------------
(* C10: GPNVM set/get round trip.  After a setter for bit i has returned   *)
(* SUCCESS the getter for bit i on the same controller returns BIT_IS_SET, *)
(* respectively BIT_IS_CLEARED; a programming command the setter issued    *)
(* carried the argument i; the other two bits, and the bits of the other   *)
(* controller, are what they were.  A getter whose get-bits command fails  *)
(* returns ERROR (0x10), which is neither bit value; one whose command     *)
(* succeeds returns the value of its bit.                                  *)
GetterFor(i) ==
    CASE i = 0 -> getSecurityBit(Machine(0))
      [] i = 1 -> getBootSelectBit(Machine(0))
      [] OTHER -> getFlashSelectBit(Machine(0))

C10_SetGetRoundTrip ==
    /\ (call.op \in Setters /\ ret = SUCCESS) =>
          /\ efc = pre.efc
          /\ GetterFor(BitOf(call.op)).ret
                = (IF WantsSet(call.op) THEN BIT_IS_SET ELSE BIT_IS_CLEARED)
          /\ \A k \in ProgramCmds(trace) :
                /\ FARG(trace[k].arg) = BitOf(call.op)
                /\ FCMD(trace[k].arg)
                      = (IF WantsSet(call.op) THEN EFC_FCMD_SGPB ELSE EFC_FCMD_CGPB)
                /\ trace[k].efc = efc
          /\ gpnvm[efc] \ {BitOf(call.op)} = pre.gpnvm[efc] \ {BitOf(call.op)}
          /\ gpnvm[1 - efc] = pre.gpnvm[1 - efc]
    /\ (call.op \in Getters) =>
          /\ Len(trace) = 1
          /\ FCMD(trace[1].arg) = EFC_FCMD_GGPB
          /\ (trace[1].st # 0) => (ret = ERROR /\ ret = 16
                                    /\ ret \notin {BIT_IS_SET, BIT_IS_CLEARED})
          /\ (trace[1].st = 0) =>
                ret = (IF BitOf(call.op) \in gpnvm[efc] THEN BIT_IS_SET ELSE BIT_IS_CLEARED)

\* setBootFlash0 has cleared bit 2 of controller 1 and left bit 0 set
C10_Witness ==
    /\ call.op = "setBootFlash0"
    /\ ret = SUCCESS
    /\ efc = EFC1
    /\ pre.gpnvm[1] = {0, 2}
    /\ gpnvm[1] = {0}
    /\ Cardinality(ProgramCmds(trace)) = 1
    /\ GetterFor(2).ret = BIT_IS_CLEARED

----------------------------------------------------------------------------
(* The unique identifier: the parts, the calls, the controller's answers   *)

\* identifiers of the parts: first word zero, small, and with bit 31 set
UidParts ==
    {<<a, b, 7, d>> : a \in {0, 1, INVALID}, b \in {0, 5}, d \in {0, 9}}

InitUid == \E U \in UidParts : InitMachine([b \in Banks |-> {}], [b \in Banks |-> {}], U)

UidOp == \E n \in BOOLEAN : getUniqueID_Start(n)

UidStep == getUniqueID_Copy \/ getUniqueID_Return

HwUid == \E b \in Banks : HwUidStart(b) \/ HwUidStop(b)

NextUid == UidOp \/ UidStep \/ HwUid \/ SetEFCOp \/ Destructor

SpecUid == InitUid /\ [][NextUid]_vars

\* a getUniqueID call with a buffer has returned
UidReturned == pc = "idle" /\ call.op = "getUniqueID" /\ ~call.null

\* C11: of two consecutive getUniqueID calls the second returns the four
\* words of the first and writes neither the start nor the stop command, and
\* a populated cache is never changed again, whichever controller is targeted
C11_UniqueIdCached ==
    /\ (UidReturned /\ prev.call.op = "getUniqueID" /\ ~prev.call.null)
          => /\ ubuff = pre.uniqueID
             /\ CountCmd(trace, EFC_FCMD_STUI) = 0
             /\ CountCmd(trace, EFC_FCMD_SPUI) = 0
    /\ pre.uniqueID # NoUniqueID => uniqueID = pre.uniqueID

----------------------------------------------------------------------------
(* The descriptor getters: the calls made                                  *)

\* below bank 0, its base, the base of bank 1, the last page and two bytes
\* in it, the end of bank 1, the last word
DBelow == {0, IFLASH0_ADDR - 1}

DInside == {IFLASH0_ADDR, IFLASH1_ADDR}

DLastPage == {IFLASH_LAST_PAGE_ADDRESS + 1, IFLASH_LAST_PAGE_ADDRESS + IFLASH_PAGE_SIZE - 1}

DAbove == {IFLASH_LAST_PAGE_ADDRESS + IFLASH_PAGE_SIZE, INVALID}

\* every getter at an address of each kind; two getters at the others; two
\* getters meeting a controller that rejects the command
DescriptorCalls ==
    (DescriptorGetters \X {0, IFLASH0_ADDR, IFLASH_LAST_PAGE_ADDRESS + 1, INVALID} \X {0})
    \cup ({"getFlashId", "getRegionSize"}
            \X (DBelow \cup DInside \cup DLastPage \cup DAbove \cup {IFLASH_LAST_PAGE_ADDRESS})
            \X {0})
    \cup ({"getFlashId", "getPageCount"} \X DInside \X {1})

\* from the third call on: a rejected fetch, and getters at the addresses
\* the cache may be tagged with
DescriptorCallsLater ==
    ({"getFlashId", "getRegionSize"} \X (DInside \cup {0}) \X {0})
    \cup ({"getFlashId"} \X DInside \X {1})

InitDescriptor == InitWith([b \in Banks |-> {}], [b \in Banks |-> {}])

DescriptorOp ==
    \E c \in (IF nops < 2 THEN DescriptorCalls ELSE DescriptorCallsLater) :
        Descriptor(c[1], c[2], c[3])

NextDescriptor == DescriptorOp

SpecDescriptor == InitDescriptor /\ [][NextDescriptor]_vars

\* the address is in [0x00080000, 0x00100000)
InBanks(addr) ==
    UGe(addr, IFLASH0_ADDR) /\ ULt(addr, IFLASH_LAST_PAGE_ADDRESS + IFLASH_PAGE_SIZE)

DescriptorCall == call.op \in DescriptorGetters

\* C12: a descriptor getter for an address outside the two banks returns
\* INVALID and leaves the cached fields and the tag as they were; for an
\* address inside, it does not return INVALID when no command is rejected
C12_DescriptorBounds ==
    DescriptorCall =>
        /\ ~InBanks(call.addr) =>
              ret = INVALID /\ flash_descriptor = pre.flash_descriptor
        /\ (InBanks(call.addr) /\ AllAccepted(trace)) =>
              ret # INVALID

\* the getter called holds the descriptor of its address: the cache is
\* tagged with the address by a fetch that succeeded, now or earlier
DescriptorHeld ==
    /\ DescriptorCall
    /\ flash_descriptor[FLASH_DESCRIPTOR_SIZE] = call.addr
    /\ InBanks(call.addr)
    /\ AllAccepted(trace)

\* what the getter named op is to return for the response d
DescriptorField(op, d) ==
    CASE op = "getFlashId" -> d[1]
      [] op = "getFlashSize" -> d[2]
      [] op = "getPageSize" -> d[3]
      [] op = "getRegionCount" -> d[4]
      [] op = "getRegionSize" -> d[5]
      [] op = "getPageCount" -> d[2] \div d[3]
      [] op = "getPageCountPerRegion" -> d[5] \div d[3]

\* C13: after a successful fetch for addr each getter returns its field of
\* the controller's response (flash id, bank size, page size, region count,
\* region size), getPageCount bank size / page size and
\* getPageCountPerRegion region size / page size
C13_GettersReturnFields ==
    DescriptorHeld => ret = DescriptorField(call.op, HwDescriptor(BankOf(call.addr)))

\* the record c, r, tr of a getter call for an address in the banks whose
\* get-descriptor command the controller rejected
FetchRejected(c, tr) ==
    /\ c.op \in DescriptorGetters
    /\ InBanks(c.addr)
    /\ CountCmd(tr, EFC_FCMD_GETD) = 1
    /\ ~AllAccepted(tr)

\* C14: a getter whose get-descriptor command is rejected returns INVALID and
\* leaves the cached fields and the tag as they were, and the next getter
\* call for the address the cache is tagged with issues no command
C14_FetchFailureKeepsCache ==
    /\ FetchRejected(call, trace) =>
          ret = INVALID /\ flash_descriptor = pre.flash_descriptor
    /\ (DescriptorCall /\ FetchRejected(prev.call, prev.trace)
           /\ call.addr = pre.flash_descriptor[FLASH_DESCRIPTOR_SIZE]) =>
          /\ prev.ret = INVALID
          /\ trace = <<>>
          /\ flash_descriptor = pre.flash_descriptor
          /\ call.op = "getFlashId" => ret = pre.flash_descriptor[0]

\* the flash id of bank 1 is cached, a fetch for bank 0 is rejected, the id
\* of bank 1 is asked for again and comes from the cache
C14_Witness ==
    /\ FetchRejected(prev.call, prev.trace)
    /\ prev.call.addr = IFLASH0_ADDR
    /\ call.op = "getFlashId"
    /\ call.addr = IFLASH1_ADDR
    /\ trace = <<>>
    /\ ret = HwDescriptor(1)[1]

----------------------------------------------------------------------------
(* All operations on one object: arguments in and out of range             *)

\* below bank 0 and the first address past bank 1; the base of bank 0 and
\* the second page of bank 1
OutAddrs == {0, FlashEnd}

InAddrs == {IFLASH0_ADDR, IFLASH1_ADDR + IFLASH_PAGE_SIZE}

InitOps ==
    \E L \in {[b \in Banks |-> {}], [b \in Banks |-> IF b = 0 THEN {0} ELSE {1}]} :
        InitWith(L, [b \in Banks |-> {}])

OpsWrite == \E a \in InAddrs : Write(a, FALSE, 16, TRUE, FALSE, 1, 0)

OpsLock == \E a \in OutAddrs \cup InAddrs : Lock(a, a + IFLASH_PAGE_SIZE - 1, 0)

OpsUnlock == \E a \in OutAddrs \cup InAddrs : Unlock(a, a + IFLASH_PAGE_SIZE - 1, 0)

OpsIsLocked == \E a \in OutAddrs \cup InAddrs : IsLocked(a, a + IFLASH_PAGE_SIZE - 1, 0)

OpsErase == \E a \in OutAddrs \cup InAddrs \cup {INVALID} : Erase(a, 0)

OpsDescriptor ==
    \E a \in InAddrs \cup {IFLASH_LAST_PAGE_ADDRESS + 1} : Descriptor("getFlashId", a, 0)

OpsGpnvm == \E n \in {"getSecurityBit", "setBootFlash1"} : Gpnvm(n, 0)

OpsRead ==
    \E a \in {0, IFLASH0_ADDR - 1, IFLASH0_ADDR, FlashEnd - 4, FlashEnd, FlashEnd + 1, INVALID},
       t \in {1, 4} : Read(a, t)

NextOps ==
    \/ OpsWrite \/ OpsLock \/ OpsUnlock \/ OpsIsLocked \/ OpsErase \/ OpsDescriptor
    \/ OpsGpnvm \/ OpsRead \/ SetEFCOp \/ UidOp \/ UidStep \/ HwUid

SpecOps == InitOps /\ [][NextOps]_vars

\* the call made has an argument that is not valid
BadArgument ==
    \/ call.op \in {"lock", "unlock", "islocked", "erase"} /\ ~InBanks(call.addr)
    \/ call.op = "getUniqueID" /\ call.null
    \/ call.op = "setEFC" /\ call.addr \notin {0, 1}

\* C15: lock, unlock, islocked and erase with an address outside the flash,
\* getUniqueID with a null buffer and setEFC with an index other than 0 and
\* 1 return a failure value, write no command to a controller and leave the
\* targeted controller as it was
C15_BadArgumentsNoSideEffects ==
    (pc = "idle" /\ BadArgument) =>
        /\ ret # SUCCESS
        /\ trace = <<>>
        /\ efc = pre.efc

\* the controller of the bank address a lies in
BankIndex(a) == IF UGe(a, IFLASH1_ADDR) THEN 1 ELSE 0

\* every command of the events tr went to controller b
AllCmdsTo(tr, b) == \A i \in 1..Len(tr) : tr[i].ev = "cmd" => tr[i].efc = b

\* the call made takes an address in the banks and has to select the
\* controller: the lock operations, erase, a write with valid arguments, a
\* descriptor getter whose address is not the tag of the cache
SelectsBank ==
    /\ InBanks(call.addr)
    /\ \/ call.op \in {"lock", "unlock", "islocked", "erase"}
       \/ call.op = "write" /\ ~call.null /\ ~WriteAddrInvalid(call.addr)
       \/ DescriptorCall /\ pre.flash_descriptor[FLASH_DESCRIPTOR_SIZE] # call.addr

\* C16: after an address-taking call for an address A in the banks the
\* targeted controller is 1 if A >= 0x000C0000 and 0 otherwise, getEFC
\* returns that index and every command of the call went to it; a GPNVM
\* or unique-ID operation leaves the target alone and sends its commands to it
C16_BankSelection ==
    /\ (pc = "idle" /\ SelectsBank) =>
          /\ efc = (IF BankIndex(call.addr) = 1 THEN EFC1 ELSE EFC0)
          /\ getEFC([efc |-> efc]) = BankIndex(call.addr)
          /\ AllCmdsTo(trace, efc)
    /\ call.op \in Setters \cup Getters \cup {"getUniqueID"} =>
          efc = pre.efc /\ AllCmdsTo(trace, pre.efc)

\* the addresses the events tr loaded from
Loads(tr) == {tr[i].arg : i \in {j \in 1..Len(tr) : tr[j].ev = "load"}}

\* C17: read<Type>(addr) returns INVALID for every address outside
\* [0x00080000, 0x00100000), 0x00100000 included, and loads from no such
\* address; for an address inside it returns what the flash holds there
C17_ReadBounds ==
    call.op = "read" =>
        /\ ~InBanks(call.addr) =>
              ret = InvalidAs(call.tsize) /\ Loads(trace) = {}
        /\ InBanks(call.addr) =>
              ret = WordOfBytes([k \in 0 .. (call.tsize - 1) |->
                                    FlashByte(flash, call.addr + k)], 0)

----------------------------------------------------------------------------
(* getUniqueID with a processor that keeps polling and a controller that   *)
(* answers every command                                                   *)

SpecUidFair == SpecUid /\ WF_vars(UidStep) /\ WF_vars(HwUid)

\* the commands and the flag transitions among the events tr, in order
RECURSIVE Kinds(_)
Kinds(tr) ==
    IF tr = <<>> THEN <<>>
    ELSE IF Head(tr).ev = "cmd" THEN <<FCMD(Head(tr).arg)>> \o Kinds(Tail(tr))
    ELSE IF Head(tr).ev \in {"fall", "rise"} THEN <<Head(tr).ev>> \o Kinds(Tail(tr))
    ELSE Kinds(Tail(tr))

\* a returned getUniqueID call that missed the cache saw the ready flag fall
\* after its start command and rise after its stop command, and returned
\* SUCCESS
UidReturnedAfterBoth ==
    (UidReturned /\ trace # <<>>) =>
        /\ Kinds(trace) = <<EFC_FCMD_STUI, "fall", EFC_FCMD_SPUI, "rise">>
        /\ ret = SUCCESS

\* C18: a getUniqueID call that misses the cache returns only after the
\* ready flag has fallen after the start command and risen after the stop
\* command, and when the controller makes both transitions the call
\* always returns, with SUCCESS
C18_BusyWaitTerminates ==
    /\ []UidReturnedAfterBoth
    /\ (pc # "idle") ~> (pc = "idle" /\ ret = SUCCESS)

\* a call on controller 1 went through both loops and returned
C18_Witness ==
    /\ UidReturned
    /\ efc = EFC1
    /\ Len(Kinds(trace)) = 4
    /\ ret = SUCCESS
    /\ ubuff = [i \in 0 .. (UNIQUE_ID_SIZE - 1) |-> hwid[i + 1]]

\* every call returns: not so under SpecUid, where the controller may leave
\* a command unanswered and the call then stays in its loop for ever
UidAlwaysReturns == (pc # "idle") ~> (pc = "idle")

----------------------------------------------------------------------------
(* write: the order of its commands and stores                             *)

PageCommands == {EFC_FCMD_WP, EFC_FCMD_WPL, EFC_FCMD_EWP, EFC_FCMD_EWPL}

\* the lock regions, as <<bank, region>>, that overlap [s, e]
Overlapping(s, e) ==
    {br \in Banks \X (0 .. (IFLASH_NB_OF_PAGES \div IFLASH_LOCK_REGION_PAGES - 1)) :
        /\ BankBase(br[1]) + br[2] * IFLASH_LOCK_REGION_SIZE <= e
        /\ BankBase(br[1]) + (br[2] + 1) * IFLASH_LOCK_REGION_SIZE > s}

\* the positions in tr of the stores and of the page commands
Programming(tr) ==
    {i \in 1..Len(tr) : \/ tr[i].ev = "store"
                        \/ tr[i].ev = "cmd" /\ FCMD(tr[i].arg) \in PageCommands}

\* the positions in tr of the clear-lock-bit commands for region br
Unlocking(tr, br) ==
    {i \in 1..Len(tr) : /\ tr[i].ev = "cmd"
                        /\ FCMD(tr[i].arg) = EFC_FCMD_CLB
                        /\ tr[i].efc = br[1]
                        /\ FARG(tr[i].arg) \div IFLASH_LOCK_REGION_PAGES = br[2]}

\* a write with a valid address whose range lies in the flash and overlaps
\* a region that is locked
WriteOverLocked ==
    /\ call.op = "write"
    /\ ~WriteAddrInvalid(call.addr)
    /\ call.size > 0
    /\ InFlash(call.end)
    /\ \E br \in Overlapping(call.addr, call.end) : br[2] \in pre.lockbits[br[1]]

\* the unlock of the write failed: a clear-lock-bit command was rejected
UnlockFailed ==
    \E i \in 1..Len(trace) :
        trace[i].ev = "cmd" /\ FCMD(trace[i].arg) = EFC_FCMD_CLB /\ trace[i].st # 0

\* C19: a write over a locked region issues the clear-lock-bit command for
\* every region its range overlaps before its first store and its first
\* page command; when the unlock fails it returns ERROR, has stored nothing,
\* issued no page command and left the wait states as they were
C19_UnlockBeforeProgramming ==
    WriteOverLocked =>
        /\ \A p \in Programming(trace) :
              \A br \in Overlapping(call.addr, call.end) :
                 \E u \in Unlocking(trace, br) : u < p
        /\ UnlockFailed =>
              /\ ret = ERROR
              /\ Programming(trace) = {}
              /\ \A b \in Banks : fmr[b].FWS = pre.fmr[b].FWS

\* the page command at position i of the trace was rejected
PageCommandFailed(i) ==
    /\ trace[i].ev = "cmd"
    /\ FCMD(trace[i].arg) \in PageCommands
    /\ trace[i].st # 0

\* the page commands before position i, all of them accepted
PagesBefore(i) ==
    {j \in 1..(i - 1) : trace[j].ev = "cmd" /\ FCMD(trace[j].arg) \in PageCommands}

\* the bytes of the data buffer that went to the first n pages of the write
BytesOfPages(n) ==
    IF n = 0 THEN 0 ELSE FirstPageBytes + (n - 1) * IFLASH_PAGE_SIZE

\* C20: when the page command of the k-th page of a write is rejected, write
\* returns the error flags of that command, which are not SUCCESS, at once:
\* it issues no further command and makes no further store, and the pages
\* before the k-th hold the data written to them
C20_WriteStopsAtFailedPage ==
    (call.op = "write" /\ ~call.null) =>
        \A i \in 1..Len(trace) :
            PageCommandFailed(i) =>
                /\ ret = trace[i].st
                /\ ret # SUCCESS
                /\ i = Len(trace)
                /\ (call.erase /\ IFLASH_PAGE_SIZE % call.tsize = 0) =>
                      \A x \in 0 .. (BytesOfPages(Cardinality(PagesBefore(i))) - 1) :
                          FlashByte(flash, call.addr + x) = DataByte(x)

\* the second page of a write of two pages was refused, the first is written
C20_Witness ==
    /\ call.op = "write" /\ ~call.null
    /\ call.erase
    /\ trace # <<>>
    /\ PageCommandFailed(Len(trace))
    /\ Cardinality(PagesBefore(Len(trace))) = 1
    /\ ret = EEFC_FSR_FLOCKE
    /\ FlashByte(flash, call.addr) = DataByte(0)
    /\ FlashByte(pre.flash, call.addr) # DataByte(0)

\* a write with data and a valid address whose range lies in one bank
WriteInOneBank ==
    /\ call.op = "write"
    /\ ~call.null
    /\ ~WriteAddrInvalid(call.addr)
    /\ call.size > 0
    /\ InFlash(call.end)
    /\ BankOf(call.addr) = BankOf(call.end)

\* the positions in tr of the page commands
PageCommandsAt(tr) ==
    {i \in 1..Len(tr) : tr[i].ev = "cmd" /\ FCMD(tr[i].arg) \in PageCommands}

\* C21: every page command of a write is erase-write-lock (0x04) when erase
\* and lock are set, erase-write (0x03) when only erase is set, write (0x01)
\* when erase is not set, its argument is the number within the bank of the
\* page just stored to, and after a successful write with lock set the
\* regions of the written pages are locked
C21_PageCommandVariant ==
    WriteInOneBank =>
        /\ \A i \in PageCommandsAt(trace) :
              /\ FCMD(trace[i].arg) =
                    (IF call.erase /\ call.lock THEN EFC_FCMD_EWPL
                     ELSE IF call.erase THEN EFC_FCMD_EWP ELSE EFC_FCMD_WP)
              /\ i > 1
              /\ trace[i - 1].ev = "store"
              /\ FARG(trace[i].arg) =
                    (trace[i - 1].arg - BankBase(BankOf(trace[i - 1].arg))) \div IFLASH_PAGE_SIZE
        /\ (ret = SUCCESS /\ call.lock) =>
              \A r \in RegionsOf(call.addr, call.end) : r \in lockbits[BankOf(call.addr)]

----------------------------------------------------------------------------
(* getUniqueID: the order of its steps                                     *)

\* the events of tr that are steps of the program, in order
RECURSIVE ProgramSteps(_)
ProgramSteps(tr) ==
    IF tr = <<>> THEN <<>>
    ELSE IF Head(tr).ev \in {"fall", "rise"} THEN ProgramSteps(Tail(tr))
    ELSE <<Head(tr)>> \o ProgramSteps(Tail(tr))

\* the steps claimed for a cache miss on controller b entered with wait
\* states w
UidSequence(b, w) ==
    <<Event("getfws", b, w, 0),
      Event("setfws", b, 6, 0),
      Event("scod", b, 1, 0),
      Event("cmd", b, EFC_FCMD_STUI + FWP_KEY * 16777216, 0),
      Event("ready", b, 0, 0),
      Event("idword", b, BankBase(b), 0),
      Event("idword", b, BankBase(b) + 4, 0),
      Event("idword", b, BankBase(b) + 8, 0),
      Event("idword", b, BankBase(b) + 12, 0),
      Event("cmd", b, EFC_FCMD_SPUI + FWP_KEY * 16777216, 0),
      Event("ready", b, 1, 0),
      Event("scod", b, 0, 0),
      Event("setfws", b, w, 0)>>

\* C22: a getUniqueID call that missed the cache has, in this order, read
\* the wait states, set them to 6, set the SCOD flag, written the start
\* command, seen the ready flag low, read the four words at the base of the
\* bank, written the stop command, seen the ready flag high, cleared the
\* SCOD flag and put the wait states back; on return the wait states and the
\* SCOD flag are those of the entry
C22_UniqueIdSequence ==
    (UidReturned /\ trace # <<>>) =>
        /\ ProgramSteps(trace) = UidSequence(efc, pre.fmr[efc].FWS)
        /\ fmr = pre.fmr
        /\ \A i \in 0 .. (UNIQUE_ID_SIZE - 1) : ubuff[i] = hwid[i + 1]

\* a call on controller 1, entered with the wait states of the boot, returned
C22_Witness ==
    /\ UidReturned
    /\ efc = EFC1
    /\ Len(ProgramSteps(trace)) = 13
    /\ pre.fmr[EFC1].FWS = BootFWS
    /\ fmr[EFC1].FWS = BootFWS

----------------------------------------------------------------------------
(* The descriptor getters: one cached descriptor, tagged with its address  *)

\* the commands of tr
Commands(tr) == {i \in 1..Len(tr) : tr[i].ev = "cmd"}

\* the getter called found its address in the tag
TagHit == DescriptorCall /\ call.addr = pre.flash_descriptor[FLASH_DESCRIPTOR_SIZE]

\* the words of the descriptor d that a getter returns as they are
CachedField(op, d) ==
    CASE op = "getFlashId" -> {d[0]}
      [] op = "getFlashSize" -> {d[1]}
      [] op = "getPageSize" -> {d[2]}
      [] op = "getRegionCount" -> {d[3]}
      [] OTHER -> {}

\* C23: a descriptor getter called with the address the cache is tagged with
\* issues no command, leaves the cache alone and returns the cached word;
\* called with any other address of the two banks it issues exactly one
\* command, the get-descriptor command, to the controller of the address's
\* bank, and when the command is accepted the tag is the address; the tag
\* changes in no other way
C23_SingleEntryCache ==
    DescriptorCall =>
        /\ TagHit =>
              /\ trace = <<>>
              /\ flash_descriptor = pre.flash_descriptor
              /\ \A w \in CachedField(call.op, pre.flash_descriptor) : ret = w
        /\ (~TagHit /\ InBanks(call.addr)) =>
              /\ Cardinality(Commands(trace)) = 1
              /\ CountCmd(trace, EFC_FCMD_GETD) = 1
              /\ AllCmdsTo(trace, BankIndex(call.addr))
              /\ AllAccepted(trace) => flash_descriptor[FLASH_DESCRIPTOR_SIZE] = call.addr
        /\ \/ flash_descriptor[FLASH_DESCRIPTOR_SIZE] = pre.flash_descriptor[FLASH_DESCRIPTOR_SIZE]
           \/ /\ flash_descriptor[FLASH_DESCRIPTOR_SIZE] = call.addr
              /\ CountCmd(trace, EFC_FCMD_GETD) = 1
              /\ AllAccepted(trace)

----------------------------------------------------------------------------
(* cmd on its own, and the command-register writes of getUniqueID          *)

MaxCmdOps == 2

\* command codes the class passes to cmd
CmdCodes == {EFC_FCMD_GETD, EFC_FCMD_SLB, EFC_FCMD_SGPB}

\* arguments: a page or bit number, the end of the 16-bit field, words past
\* it, 0xFFFFFFFF
CmdArgs == {0, 65535, 65536, 65537, INVALID}

\* every code with every argument, accepted; one command rejected
CmdCalls == (CmdCodes \X CmdArgs \X {0}) \cup {<<EFC_FCMD_GETD, 0, 1>>}

Cmd(c, arg, fault) ==
    /\ nops < MaxCmdOps
    /\ nops' = nops + 1
    /\ \E r \in {cmd(Machine(fault), c, arg)} :
          Finish(r, Call("cmd", c, arg, 0, FALSE, FALSE, 1, FALSE, fault))

CmdOp == \E c \in CmdCalls : Cmd(c[1], c[2], c[3])

NextCmd == CmdOp \/ SetEFCOp \/ UidOp \/ UidStep \/ HwUid

InitCmd == InitWith([b \in Banks |-> {}], [b \in Banks |-> {}])

SpecCmd == InitCmd /\ [][NextCmd]_vars

\* the word has its key field, bits 24-31, equal to 0x5A
Keyed(word) == word \div 16777216 = 90

\* C24: every word handed to a controller, by cmd through the IAP routine
\* and by the two command-register writes of getUniqueID, has the key 0x5A
\* in bits 24-31; the word cmd(c, arg) hands over has c in bits 0-7 and
\* arg modulo 2^16 in bits 8-23 and goes to the controller selected, and cmd
\* returns the status register of that controller masked to the
\* command-error and lock-error bits; the words of getUniqueID carry the
\* start and the stop code and the argument 0
C24_KeyedCommandWord ==
    /\ \A i \in Commands(trace) : Keyed(trace[i].arg)
    /\ call.op = "cmd" =>
          /\ Len(trace) = 1
          /\ trace[1].ev = "cmd"
          /\ trace[1].efc = efc
          /\ trace[1].arg % 256 = call.addr % 256
          /\ (trace[1].arg \div 256) % 65536 = call.end % 65536
          /\ ret = 2 * ((fsr[efc] \div 2) % 4)
          /\ ret = SUCCESS <=> fsr[efc] \in {0, EEFC_FSR_FRDY}
    /\ call.op = "getUniqueID" =>
          \A i \in Commands(trace) :
              trace[i].arg \in {14 + 90 * 16777216, 15 + 90 * 16777216}

\* a set-lock-bit command with argument 0x10001 on controller 1 went out as
\* 0x5A000108 and locked the region of page 1
C24_Witness ==
    /\ call.op = "cmd"
    /\ call.addr = EFC_FCMD_SLB
    /\ call.end = 65537
    /\ efc = EFC1
    /\ trace[1].arg = 1509949704
    /\ ret = SUCCESS
    /\ 0 \in lockbits[1]

----------------------------------------------------------------------------
(* MPUConfigureRegion                                                      *)

MaxMpuOps == 2

\* (uint32_t)addr >> 5
ShiftRight5(a) ==
    IF a >= 0 THEN a \div 32 ELSE ((a + 2147483647) + 1) \div 32 + 67108864

\* x & (0xffffffff << k) for x below 2^27.  k is size - 4 as a word: for a
\* size below 4 it has bit 31 set, and a shift by 32 or more is undefined;
\* the build may then clear every bit (LSL by a register holding 32 or
\* more) or leave the word as it is
MaskedAddress(x, k) ==
    IF k >= 0 /\ k <= 31
    THEN {IF k >= 27 THEN 0 ELSE x - (x % (2 ^ k))}
    ELSE {0, x}

\* MPU_RBAR_REGISTER.FULL: REGION:4, VALID:1, ADDRESS:27
RBARWord(region, address) ==
    LET low == (region % 16) + 16
        a == address % 134217728
    IN  IF a < 67108864
        THEN low + 32 * a
        ELSE (low + 32 * (a - 67108864)) - 2147483647 - 1

\* MPU_RASR_REGISTER.FULL: ENABLE:1, SIZE:5, 2 reserved, SRD:8, B:1, C:1,
\* S:1, TEX:3, 2 reserved, AP:3, 1 reserved, XN:1, 3 reserved
RASRWord(size, tex, c, b, s, ap, xn) ==
    1 + 2 * (size % 32) + 256 * 0 + 65536 * (b % 2) + 131072 * (c % 2)
      + 262144 * (s % 2) + 524288 * (tex % 8) + 16777216 * (ap % 8)
      + 268435456 * (xn % 2)

\* MPU_CTRL_REGISTER.FULL: ENABLE:1, HFNMIENA:1, PRIVDEFENA:1 assigned,
\* RESERVED0:29 never assigned in a local that has no initializer
CTRLWord(reserved) ==
    IF reserved < 268435456
    THEN 1 + 2 * 0 + 4 * 1 + 8 * reserved
    ELSE (1 + 2 * 0 + 4 * 1 + 8 * (reserved - 268435456)) - 2147483647 - 1

\* what the 29 bits of the local may hold: nothing, one bit, every bit
ReservedBits == {0, 1, 536870911}

\* the register writes with the control register first
MpuEvents_ControlFirst(k, rbar, rasr, ctrl) ==
    <<Event("dsb", 0, 0, 0), Event("isb", 0, 0, 0), Event("shl", 0, k, 0),
      Event("ctrl", 0, ctrl, 0), Event("rbar", 0, rbar, 0), Event("rasr", 0, rasr, 0)>>

\* the barriers, the shift by k of the mask, the three register writes
MpuEvents(k, rbar, rasr, ctrl) ==
    <<Event("dsb", 0, 0, 0), Event("isb", 0, 0, 0), Event("shl", 0, k, 0),
      Event("rbar", 0, rbar, 0), Event("rasr", 0, rasr, 0), Event("ctrl", 0, ctrl, 0)>>

MpuCall(addr, size, region, tex, c, b, s, ap, xn) ==
    [op |-> "MPUConfigureRegion", addr |-> addr, size |-> size, region |-> region,
     tex |-> tex, c |-> c, b |-> b, s |-> s, ap |-> ap, xn |-> xn]

MPUConfigureRegion(addr, size, region, tex, c, b, s, ap, xn) ==
    /\ pc = "idle"
    /\ nops < MaxMpuOps
    /\ nops' = nops + 1
    /\ \E address \in MaskedAddress(ShiftRight5(addr), size - 4), reserved \in ReservedBits :
          /\ mpu' = [RBAR |-> RBARWord(region, address),
                     RASR |-> RASRWord(size, tex, c, b, s, ap, xn),
                     CTRL |-> CTRLWord(reserved)]
          /\ trace' = MpuEvents(size - 4, RBARWord(region, address),
                                RASRWord(size, tex, c, b, s, ap, xn), CTRLWord(reserved))
    /\ ret' = SUCCESS
    /\ call' = MpuCall(addr, size, region, tex, c, b, s, ap, xn)
    /\ pre' = Snapshot
    /\ prev' = [call |-> call, ret |-> ret, trace |-> trace]
    /\ UNCHANGED <<efc, fmr, fsr, frr, lockbits, gpnvm, flash, latch, FWS0, FWS1,
                   uniqueID, flash_descriptor, hwid, hwcmd, pc, ubuff, uidfws, wr>>

\* regions as <<address, size code>>: aligned ones of 32 bytes, 256 KiB,
\* 512 MiB and 4 GiB in SRAM, in flash bank 1, in the system space and at 0;
\* an address not aligned to its size; size codes below the smallest, 4, and
\* past the field
MpuAligned ==
    {<<536870912, 4>>, <<536870944, 4>>, <<536870912, 17>>, <<IFLASH1_ADDR, 17>>,
     <<-536870912, 28>>, <<0, 31>>}

MpuRegions ==
    MpuAligned \cup {<<536870944, 17>>, <<536870912, 3>>, <<536870944, 0>>, <<536870912, 36>>}

\* region numbers: the first, the last, one past the field
MpuRegionNumbers == {0, 7, 17}

\* <<tex, c, b, s, ap, xn>>
MpuAttributes == {<<0, 0, 0, 0, 0, 0>>, <<7, 1, 1, 1, 7, 1>>, <<1, 0, 1, 0, 3, 0>>}

\* every region as region 0 with no attribute set; every region number with
\* every attribute word on one region; every aligned region as region 7
\* with every attribute bit set
MpuCalls ==
    (MpuRegions \X {0} \X {<<0, 0, 0, 0, 0, 0>>})
    \cup ({<<536870912, 4>>} \X MpuRegionNumbers \X MpuAttributes)
    \cup (MpuAligned \X {7} \X {<<7, 1, 1, 1, 7, 1>>})

MpuOp ==
    \E x \in MpuCalls :
        MPUConfigureRegion(x[1][1], x[1][2], x[2],
                           x[3][1], x[3][2], x[3][3], x[3][4], x[3][5], x[3][6])

InitMpu == InitWith([b \in Banks |-> {}], [b \in Banks |-> {}])

NextMpu == MpuOp

SpecMpu == InitMpu /\ [][NextMpu]_vars

MpuCalled == call.op = "MPUConfigureRegion"

\* the events of tr that are barriers or register writes
RECURSIVE MpuSteps(_)
MpuSteps(tr) ==
    IF tr = <<>> THEN <<>>
    ELSE IF Head(tr).ev \in {"dsb", "isb", "rbar", "rasr", "ctrl"}
         THEN <<Head(tr).ev>> \o MpuSteps(Tail(tr))
         ELSE MpuSteps(Tail(tr))

\* C25: every MPUConfigureRegion call performs the data-synchronization
\* barrier, the instruction-synchronization barrier, the write of the
\* region-base register, the write of the region-attribute register and the
\* write of the control register, in this order and once each, the registers
\* hold the words written, and the call returns SUCCESS
C25_MpuCommitOrder ==
    MpuCalled =>
        /\ MpuSteps(trace) = <<"dsb", "isb", "rbar", "rasr", "ctrl">>
        /\ \A i \in 1..Len(trace) :
              /\ trace[i].ev = "rbar" => trace[i].arg = mpu.RBAR
              /\ trace[i].ev = "rasr" => trace[i].arg = mpu.RASR
              /\ trace[i].ev = "ctrl" => trace[i].arg = mpu.CTRL
        /\ ret = SUCCESS

\* a second call, with a size code below the smallest, returned
C25_Witness ==
    /\ MpuCalled
    /\ prev.call.op = "MPUConfigureRegion"
    /\ call.size = 3
    /\ ret = SUCCESS
    /\ Len(trace) = 6

\* bits lo .. lo+n-1 of the word w
Bits(w, lo, n) == (w \div (2 ^ lo)) % (2 ^ n)

\* addr is a multiple of 2^(size+1), the byte size of a region of size code
\* size
AlignedTo(addr, size) ==
    IF size >= 30
    THEN /\ addr % 1073741824 = 0
         /\ (addr \div 1073741824) % (IF size = 31 THEN 4 ELSE 2) = 0
    ELSE addr % (2 ^ (size + 1)) = 0

\* the amounts the call shifted a word by
ShiftAmounts(tr) == {tr[i].arg : i \in {j \in 1..Len(tr) : tr[j].ev = "shl"}}

\* the words written hold the region as the arguments describe it
MpuEncoded ==
    /\ Bits(mpu.RBAR, 0, 4) = call.region
    /\ Bits(mpu.RBAR, 4, 1) = 1
    /\ mpu.RBAR \div 32 = call.addr \div 32
    /\ Bits(mpu.RASR, 0, 1) = 1
    /\ Bits(mpu.RASR, 1, 5) = call.size
    /\ Bits(mpu.RASR, 8, 8) = 0
    /\ Bits(mpu.RASR, 16, 1) = call.b
    /\ Bits(mpu.RASR, 17, 1) = call.c
    /\ Bits(mpu.RASR, 18, 1) = call.s
    /\ Bits(mpu.RASR, 19, 3) = call.tex
    /\ Bits(mpu.RASR, 24, 3) = call.ap
    /\ Bits(mpu.RASR, 28, 1) = call.xn

\* C26: for a region number in 0..7, a size code from 4 (32 bytes) to 31 and
\* an address aligned to 2^(size code + 1), the region-base register gets the
\* region number in bits 0-3, bit 4 set and bits 5-31 of the address, and
\* the region-attribute register gets enable 1, the size code, sub-region
\* disable 0 and the six attribute arguments; for every size code in 0..31
\* every shift the call performs is by an amount in 0..31
C26_MpuBaseAddressEncoding ==
    MpuCalled =>
        /\ (call.region \in 0..7 /\ call.size \in 4..31 /\ AlignedTo(call.addr, call.size)) =>
              MpuEncoded
        /\ call.size \in 0..31 => \A k \in ShiftAmounts(trace) : k \in 0..31

\* C27: the word written to the control register is 0x00000005 on every
\* call, whatever the arguments and whatever was called before: bit 0
\* (enable) set, bit 1 (HFNMIENA) clear, bit 2 (PRIVDEFENA) set, bits 3-31
\* zero
C27_MpuControlValue ==
    MpuCalled =>
        /\ mpu.CTRL = 5
        /\ \A i \in 1..Len(trace) : trace[i].ev = "ctrl" => trace[i].arg = 5

----------------------------------------------------------------------------
(* write: where the page commands go, and writes of no bytes               *)

\* a write call whose address passed the validation and that handed over a
\* data buffer
ValidatedWrite == call.op = "write" /\ ~call.null /\ ~WriteAddrInvalid(call.addr)

\* C29: every page-program command of a write whose address passed the
\* validation, whatever its size, carries a page number in 0..1023, follows
\* the store of its page, goes to the controller of the bank that holds the
\* address stored to, and that address lies in the flash
C29_PageCommandTarget ==
    ValidatedWrite =>
        \A i \in PageCommandsAt(trace) :
            /\ FARG(trace[i].arg) \in 0 .. (IFLASH_NB_OF_PAGES - 1)
            /\ i > 1
            /\ trace[i - 1].ev = "store"
            /\ InFlash(trace[i - 1].arg)
            /\ trace[i].efc = BankOf(trace[i - 1].arg)

\* C30: a write of no bytes to a valid address returns SUCCESS, issues no
\* set-lock-bit, clear-lock-bit or page-program command and leaves the
\* flash, the lock bits and the mode registers as they were
C30_ZeroSizeWriteIsNoOp ==
    (ValidatedWrite /\ call.size = 0) =>
        /\ ret = SUCCESS
        /\ PageCommandsAt(trace) = {}
        /\ CountCmd(trace, EFC_FCMD_SLB) = 0
        /\ CountCmd(trace, EFC_FCMD_CLB) = 0
        /\ flash = pre.flash
        /\ lockbits = pre.lockbits
        /\ fmr = pre.fmr

----------------------------------------------------------------------------
(* write, one step per page, and an interrupt handler that uses the object *)

MaxIrqs == 1

\* write up to the line that selects the bank: go tells that it goes on
WriteEntry(m, addr, data_size) ==
    IF WriteAddrInvalid(addr)
    THEN [m |-> m, ret |-> INVALID, go |-> FALSE]
    ELSE Bind(islocked(m, addr, addr + data_size - 1),
              LAMBDA il :
                 IF il.ret # 0
                 THEN Bind(unlock(il.m, addr, addr + data_size - 1),
                           LAMBDA ul :
                              IF ul.ret # SUCCESS
                              THEN [m |-> ul.m, ret |-> ERROR, go |-> FALSE]
                              ELSE [m |-> ul.m, ret |-> SUCCESS, go |-> TRUE])
                 ELSE [m |-> il.m, ret |-> SUCCESS, go |-> TRUE])

\* the locals write sets up before its loop
WriteLocals(m, addr, data_size) ==
    LET FLASH_START_ADDR == IF addr >= IFLASH1_ADDR THEN IFLASH1_ADDR ELSE IFLASH0_ADDR
    IN  [FLASH_START_ADDR |-> FLASH_START_ADDR,
         page_num |-> U16((addr - FLASH_START_ADDR) \div IFLASH_PAGE_SIZE),
         offset |-> U16((addr - FLASH_START_ADDR) % IFLASH_PAGE_SIZE),
         data_size |-> data_size, dp |-> 0,
         fws |-> getfws([m EXCEPT !.efc = IF addr >= IFLASH1_ADDR THEN EFC1 ELSE EFC0]),
         irqs |-> 0]

\* a loop body that selects the controller of the bank again before the
\* page command
WriteIteration_Reselects(m, w, c) ==
    LET write_size == IF IFLASH_PAGE_SIZE - w.offset < w.data_size
                      THEN IFLASH_PAGE_SIZE - w.offset ELSE w.data_size
        page_address == w.FLASH_START_ADDR + w.page_num * IFLASH_PAGE_SIZE
        padding_size == U16(IFLASH_PAGE_SIZE - w.offset - write_size)
        m1 == flashcpy(m, page_address, c.null, w.dp, w.offset, write_size, padding_size)
    IN  cmd([m1 EXCEPT !.efc = BankOf(w.FLASH_START_ADDR)],
            WriteCommand(c.erase, c.lock), w.page_num)

\* one round of the loop of write up to the test of what cmd returned: the
\* page is built and stored, the page command issued to the controller
\* selected at that moment
WriteIteration(m, w, c) ==
    LET write_size == IF IFLASH_PAGE_SIZE - w.offset < w.data_size
                      THEN IFLASH_PAGE_SIZE - w.offset ELSE w.data_size
        page_address == w.FLASH_START_ADDR + w.page_num * IFLASH_PAGE_SIZE
        padding_size == U16(IFLASH_PAGE_SIZE - w.offset - write_size)
        m1 == flashcpy(m, page_address, c.null, w.dp, w.offset, write_size, padding_size)
    IN  cmd(m1, WriteCommand(c.erase, c.lock), w.page_num)

\* the locals after a round whose command was accepted
WriteAdvance(w, c) ==
    LET write_size == IF IFLASH_PAGE_SIZE - w.offset < w.data_size
                      THEN IFLASH_PAGE_SIZE - w.offset ELSE w.data_size
    IN  [w EXCEPT !.page_num = U16(w.page_num + 1),
                  !.offset = 0,
                  !.dp = w.dp + (write_size \div c.tsize) * c.tsize,
                  !.data_size = w.data_size - write_size]

\* the machine the running call continues on
Running == [Machine(0) EXCEPT !.trace = trace]

\* the registers, arrays and events are those of m
MachineIs(m) ==
    /\ efc' = m.efc
    /\ fmr' = m.fmr
    /\ fsr' = m.fsr
    /\ frr' = m.frr
    /\ lockbits' = m.lockbits
    /\ gpnvm' = m.gpnvm
    /\ flash' = m.flash
    /\ latch' = m.latch
    /\ uniqueID' = m.uniqueID
    /\ flash_descriptor' = m.flash_descriptor
    /\ trace' = m.trace

\* write is called, as the first operation on the object, and runs up to
\* its loop
WriteStart(addr, dataNull, size, erase, lck, tsize) ==
    /\ pc = "idle"
    /\ nops = 0
    /\ nops' = nops + 1
    /\ call' = Call("write", addr, addr + size - 1, size, erase, lck, tsize, dataNull, 0)
    /\ pre' = Snapshot
    /\ prev' = [call |-> call, ret |-> ret, trace |-> trace]
    /\ \E e \in {WriteEntry(Machine(0), addr, size)} :
          IF e.go
          THEN /\ MachineIs(setfws([e.m EXCEPT !.efc = IF addr >= IFLASH1_ADDR
                                                       THEN EFC1 ELSE EFC0],
                                   CHIP_FLASH_WAIT_STATE))
               /\ wr' = WriteLocals(e.m, addr, size)
               /\ pc' = "page"
               /\ UNCHANGED ret
          ELSE /\ MachineIs(e.m)
               /\ ret' = e.ret
               /\ UNCHANGED <<wr, pc>>
    /\ UNCHANGED <<FWS0, FWS1, hwid, hwcmd, ubuff, uidfws, mpu>>

\* one round of the loop, or the end of write when no byte is left
WritePage ==
    /\ pc = "page"
    /\ IF wr.data_size > 0
       THEN \E r \in {WriteIteration(Running, wr, call)} :
               /\ MachineIs(r.m)
               /\ IF r.ret # SUCCESS
                  THEN /\ ret' = MaskErrorFlags(r.m.fsr[r.m.efc])
                       /\ wr' = NoWrite
                       /\ pc' = "idle"
                  ELSE /\ wr' = WriteAdvance(wr, call)
                       /\ UNCHANGED <<ret, pc>>
       ELSE /\ MachineIs(setfws(Running, wr.fws))
            /\ ret' = SUCCESS
            /\ wr' = NoWrite
            /\ pc' = "idle"
    /\ UNCHANGED <<FWS0, FWS1, hwid, hwcmd, ubuff, uidfws, mpu, call, pre, prev, nops>>

\* the operations an interrupt handler may call on the object
IrqOps == {"islocked", "lock", "unlock", "erase", "getFlashId", "getSecurityBit"}

IrqResult(op, m, a) ==
    CASE op = "islocked" -> islocked(m, a, a)
      [] op = "lock" -> lock(m, a, a)
      [] op = "unlock" -> unlock(m, a, a)
      [] op = "erase" -> erase_bank(m, a)
      [] op = "getFlashId" -> CHOOSE r \in getFlashId(m, a) : TRUE
      [] op = "getSecurityBit" -> getSecurityBit(m)

\* between two rounds of write an interrupt handler runs one operation on
\* the same object and returns; "irq" and "iret" mark its entry and its
\* return, with the controller selected at that moment
Interrupt(op, a) ==
    /\ pc = "page"
    /\ wr.irqs < MaxIrqs
    /\ \E r \in {IrqResult(op, [Running EXCEPT !.trace = Append(@, Event("irq", efc, a, 0))], a)} :
          MachineIs([r.m EXCEPT !.trace = Append(@, Event("iret", r.m.efc, a, 0))])
    /\ wr' = [wr EXCEPT !.irqs = @ + 1]
    /\ UNCHANGED <<FWS0, FWS1, hwid, hwcmd, pc, ubuff, uidfws, mpu,
                   call, ret, pre, prev, nops>>

\* writes of one, two and three pages, each inside one bank:
\* <<addr, size, lock>>
IrqWrites ==
    {<<IFLASH0_ADDR, 512, FALSE>>, <<IFLASH1_ADDR, 512, FALSE>>,
     <<IFLASH0_ADDR + 16, 300, FALSE>>, <<IFLASH1_ADDR + IFLASH_PAGE_SIZE, 600, FALSE>>,
     <<IFLASH1_ADDR, 16, FALSE>>}

IrqWriteOp == \E c \in IrqWrites : WriteStart(c[1], FALSE, c[2], TRUE, c[3], 1)

InterruptOp == \E op \in IrqOps, a \in {IFLASH0_ADDR, IFLASH1_ADDR} : Interrupt(op, a)

InitIrq ==
    \E L \in {[b \in Banks |-> {}], [b \in Banks |-> IF b = 0 THEN {0} ELSE {}]} :
        InitWith(L, [b \in Banks |-> {}])

NextIrq == IrqWriteOp \/ WritePage \/ InterruptOp

SpecIrq == InitIrq /\ [][NextIrq]_vars

\* the controller selected when event i of tr happened: the one the last
\* interrupt before i left selected, or b when none came
RECURSIVE TargetAt(_, _, _)
TargetAt(tr, i, b) ==
    IF i <= 1 THEN b
    ELSE IF tr[i - 1].ev = "iret" THEN tr[i - 1].efc
    ELSE TargetAt(tr, i - 1, b)

\* the address of the last store before event i of tr
RECURSIVE StoredBefore(_, _)
StoredBefore(tr, i) ==
    IF i <= 1 THEN 0
    ELSE IF tr[i - 1].ev = "store" THEN tr[i - 1].arg
    ELSE StoredBefore(tr, i - 1)

\* event i is a page command whose page was stored to one bank and that
\* went to the controller of the other
Misdirected(tr, i) ==
    /\ i \in PageCommandsAt(tr)
    /\ tr[i].efc # BankOf(StoredBefore(tr, i))

\* C28: the page of every page-program command of a write to bank b is
\* stored to bank b, and the command goes to the controller the object has
\* selected at that moment: controller b while no interrupt handler has used
\* the object since the write began, and after one has, the controller its
\* operation left selected, whether or not that is b
C28_NonReentrancy ==
    call.op = "write" =>
        \A i \in PageCommandsAt(trace) :
            /\ InFlash(StoredBefore(trace, i))
            /\ BankOf(StoredBefore(trace, i)) = BankOf(call.addr)
            /\ trace[i].efc = TargetAt(trace, i, BankOf(call.addr))

\* a write to bank 0 returned SUCCESS after its second page, stored to bank
\* 0, was programmed by a command to controller 1
C28_Witness ==
    /\ call.op = "write"
    /\ BankOf(call.addr) = 0
    /\ pc = "idle"
    /\ ret = SUCCESS
    /\ \E i \in PageCommandsAt(trace) : Misdirected(trace, i)
    /\ ~Misdirected(trace, CHOOSE i \in PageCommandsAt(trace) : \A j \in PageCommandsAt(trace) : i <= j)


\* a write that asked for no lock passed its validation and its unlock: it
\* returned SUCCESS or the error flags of a rejected page command
UnlockedWriteReturned ==
    /\ call.op = "write"
    /\ ~call.lock
    /\ ~call.null
    /\ ~WriteAddrInvalid(call.addr)
    /\ \/ ret = SUCCESS
       \/ \E i \in 1..Len(trace) : PageCommandFailed(i)

\* every lock region of both banks, as <<bank, region>>
LockRegions == Banks \X (0 .. (IFLASH_NB_OF_PAGES \div IFLASH_LOCK_REGION_PAGES - 1))

\* C31: after a write with lock = false that succeeded or failed on a page
\* command, the lock bit of every region outside the regions of
\* [addr, addr + size - 1] is what it was before the call, and no region
\* inside that span is locked
C31_LockStateAfterWrite ==
    UnlockedWriteReturned =>
        \A br \in LockRegions :
            IF br \in Overlapping(call.addr, call.end)
            THEN br[2] \notin lockbits[br[1]]
            ELSE br[2] \in lockbits[br[1]] <=> br[2] \in pre.lockbits[br[1]]

\* a write with lock = false failed on a page command of the bank of its
\* start address while its range reaches a locked region of the other bank
LockedAcrossBanks ==
    /\ UnlockedWriteReturned
    /\ ret # SUCCESS
    /\ \E br \in Overlapping(call.addr, call.end) :
          /\ br[1] # BankIndex(call.addr)
          /\ br[2] \in pre.lockbits[br[1]]
          /\ br[2] \in lockbits[br[1]]

\* the get-lock-bits command of the islocked call was rejected
QueryFailed ==
    /\ call.op = "islocked"
    /\ \E i \in 1..Len(trace) :
          /\ trace[i].ev = "cmd"
          /\ FCMD(trace[i].arg) = EFC_FCMD_GLB
          /\ trace[i].st # 0

\* the values FSR & EEFC_ERROR_FLAGS takes when a command was rejected
ErrorValues ==
    {EEFC_FSR_FCMDE, EEFC_FSR_FLOCKE, EEFC_ERROR_FLAGS}

\* C32: a return value of 2, 4 or 6 from islocked means that the
\* get-lock-bits command was accepted and that this many regions of the
\* range are locked; it is never the error flags of a rejected command
C32_FailureIsDistinguishable ==
    (call.op = "islocked" /\ ret \in ErrorValues) =>
        /\ ~QueryFailed
        /\ ret = Cardinality({r \in QueryRegion(call.addr) .. QueryRegion(call.end) :
                                 r \in pre.lockbits[QueryBank]})

\* two islocked calls in a row returned the same value, the first as the
\* count of an accepted command, the second as the flags of a rejected one
AmbiguousReturn ==
    /\ QueryFailed
    /\ prev.call.op = "islocked"
    /\ \A i \in 1..Len(prev.trace) : prev.trace[i].st = 0
    /\ prev.ret = ret

----------------------------------------------------------------------------
(* Descriptor fetches from a controller whose response may end early: the  *)
(* result register yields the first words of the descriptor and then       *)
(* zeros.                                                                  *)

FetchCall(name, addr, words) == [op |-> name, addr |-> addr, words |-> words]

Fetch(name, addr, words) ==
    /\ nops < MaxDescOps
    /\ nops' = nops + 1
    /\ \E r \in DescriptorResults(name, [Machine(0) EXCEPT !.dwords = words], addr) :
          Finish(r, FetchCall(name, addr, words))

\* every getter meeting a response of two words at bank 1; two getters at
\* either bank meeting an empty response, one of three words and a whole one
FetchCalls ==
    (DescriptorGetters \X {IFLASH1_ADDR} \X {2})
    \cup ({"getFlashId", "getRegionCount"} \X {IFLASH0_ADDR, IFLASH1_ADDR}
            \X {0, FLASH_DESCRIPTOR_SIZE - 1, FLASH_DESCRIPTOR_SIZE + 1})

FetchOp == \E c \in FetchCalls : Fetch(c[1], c[2], c[3])

NextFetch == FetchOp

SpecFetch == InitDescriptor /\ [][NextFetch]_vars

\* the getter call c with the events tr fetched the descriptor: it issued
\* the get-descriptor command and the controller accepted it
Fetched(c, tr) ==
    /\ c.op \in DescriptorGetters
    /\ CountCmd(tr, EFC_FCMD_GETD) = 1
    /\ AllAccepted(tr)

\* the fields the fetch of call c stored: the words of the response before
\* its first zero, up to the field count
FieldsRead(c) ==
    LET n == IF c.words < FLASH_DESCRIPTOR_SIZE THEN c.words ELSE FLASH_DESCRIPTOR_SIZE
    IN  [i \in 0..(n - 1) |-> HwDescriptor(BankIndex(c.addr))[i + 1]]

\* the fields of the cache the getter named op reads
FieldsOf(op) ==
    CASE op = "getFlashId" -> {0}
      [] op = "getFlashSize" -> {1}
      [] op = "getPageSize" -> {2}
      [] op = "getRegionCount" -> {3}
      [] op = "getRegionSize" -> {4}
      [] op = "getPageCount" -> {1, 2}
      [] op = "getPageCountPerRegion" -> {4, 2}

\* the getter named op returned r from fields that the fetch of call c read
\* from the result register
FromFetch(op, r, c) ==
    /\ FieldsOf(op) \subseteq DOMAIN FieldsRead(c)
    /\ r = CASE op = "getPageCount" -> UDiv(FieldsRead(c)[1], FieldsRead(c)[2])
             [] op = "getPageCountPerRegion" -> UDiv(FieldsRead(c)[4], FieldsRead(c)[2])
             [] OTHER -> FieldsRead(c)[CHOOSE i \in FieldsOf(op) : TRUE]

\* C33: once a fetch for address A has succeeded and tagged the cache with
\* A, what a getter for A returns, in the call that fetched and in the next
\* call that finds the tag, comes from words read from the result register
\* during that fetch; no field of an earlier fetch is returned under tag A
C33_NoStaleDescriptorFields ==
    /\ Fetched(call, trace) => FromFetch(call.op, ret, call)
    /\ (TagHit /\ Fetched(prev.call, prev.trace) /\ prev.call.addr = call.addr) =>
          FromFetch(call.op, ret, prev.call)

\* a fetch for bank 1 whose response was empty returned, under the tag of
\* its address, the flash identifier cached from bank 0
StaleFieldReturned ==
    /\ Fetched(call, trace)
    /\ call.op = "getFlashId"
    /\ call.words = 0
    /\ flash_descriptor[FLASH_DESCRIPTOR_SIZE] = call.addr
    /\ BankIndex(call.addr) = 1
    /\ ret = HwDescriptor(0)[1]
    /\ ret # HwDescriptor(1)[1]
============================================================================
